---- MODULE Spec2Model ----
(***************************************************************************)
(* Model of logson's log parsing core: the chunked parsing driver (worker  *)
(* parseLogFile and LogParserService.parseLogFileChunked) and the          *)
(* concurrency dispatcher LogParserService.parseLogFile, which feeds the   *)
(* snapshots of one shared BehaviorSubject to every open feed; and the     *)
(* functions an entry is built with: detectLogType, formatDate and its     *)
(* capped cache, formatMessage, formatSql, and getStatistics.              *)
(*                                                                         *)
(* A document is the sequence content.split('\n') of its lines.  A line is *)
(* a record [kind, ts, level, ctx, msg]:                                   *)
(*   "empty"    the empty string                                           *)
(*   "space"    a non-empty line of whitespace only                        *)
(*   "garbage"  non-blank, JSON.parse throws, fallback regex fails         *)
(*   "jsonNull" the text null: JSON.parse succeeds and yields null         *)
(*   "json"     a JSON object: Timestamp ts, Level level, SourceContext    *)
(*              ctx under Properties                                       *)
(*   "text"     a fallback-grammar line: date/time ts, level word level,   *)
(*              message msg                                                *)
(*                                                                         *)
(* Specifications: Spec and SpecLive (the dispatcher), SpecDriver (the     *)
(* drivers on their own), SpecDates (the date caches), SpecDetect,         *)
(* SpecStats, SpecMessage, SpecSql and SpecWhere (one function each),      *)
(* SpecEntry (one line parsed into an entry), SpecList (the                *)
(* LogsListComponent) and SpecApp (the AppComponent on the dispatcher).    *)
(***************************************************************************)
EXTENDS Integers, Sequences, FiniteSets, TLC

\* ----- bounds of the model ------------------------------------------------
\* longest document (in lines)
MaxLines == 3
\* number of parseLogFile feeds subscribed on one service
MaxFeeds == 2
\* distinct timestamps carried by records
MaxTs == 2
\* largest chunk size handed to the worker driver on its own
MaxChunk == 3
\* longest SourceContext handed to detectLogType (in tokens)
MaxCtx == 2
\* longest entry array handed to getStatistics
MaxLogs == 3
\* longest message template (in tokens) and largest property map (in keys)
MaxTemplate == 2
MaxProps == 2
\* most projected columns of a SELECT handed to formatSql
MaxColumns == 2
\* formatSql cuts unrecognized text after 80 characters; the model scales
\* that down to a few tokens.
SummaryLength == 4
\* LogParserService.CHUNK_SIZE is 5000 in the source; the model scales it
\* down so that documents of MaxLines lines cross a chunk boundary.
CHUNK_SIZE == 2

\* ----- strings --------------------------------------------------------------
\* A string is the sequence of its tokens (words, punctuation marks, blanks).
\* haystack.includes(needle), startsWith and indexOf work on those sequences.
startsWithAt(s, pat, i) ==
  /\ i + Len(pat) - 1 <= Len(s)
  /\ \A k \in 1..Len(pat) : s[i + k - 1] = pat[k]

includes(s, pat) == \E i \in 1..(Len(s) + 1) : startsWithAt(s, pat, i)

startsWith(s, pat) == startsWithAt(s, pat, 1)

\* ----- timestamps -----------------------------------------------------------
\* A timestamp string is modelled by the instant it denotes, counted in hours
\* of local time: 1, 2, ... are parseable strings, InvalidTs is a non-empty
\* string `new Date` cannot parse, NoTs is a missing (falsy) field.
NoTs == 0
InvalidTs == -1
\* the Number NaN
NaN == -2

\* new Date(timestamp).getTime()
getTime(timestamp) == IF timestamp >= 1 THEN timestamp ELSE NaN

\* new Date(timestamp).getHours()
getHours(timestamp) == IF timestamp >= 1 THEN timestamp % 24 ELSE NaN

\* new Date().toISOString(): the clock reads an instant later than every
\* timestamp written in a document
Clock == {MaxTs + 1, MaxTs + 2, MaxTs + 3}

\* what new Date() reads at each of n lines of one run: the clock never goes back
Readings(n) == {c \in [1..n -> Clock] : \A i \in 1..(n - 1) : c[i] <= c[i + 1]}

\* ----- lines ----------------------------------------------------------------
\* decoded fields of a line: level is the Level field ('' when absent) or the
\* level word of a text line, ctx the SourceContext property, msg the message
NoCtx == <<>>
NoMsg == <<>>
EmptyLine == [kind |-> "empty", ts |-> NoTs, level |-> "", ctx |-> NoCtx, msg |-> NoMsg]
SpaceLine == [kind |-> "space", ts |-> NoTs, level |-> "", ctx |-> NoCtx, msg |-> NoMsg]
GarbageLine == [kind |-> "garbage", ts |-> NoTs, level |-> "", ctx |-> NoCtx, msg |-> NoMsg]
JsonNullLine == [kind |-> "jsonNull", ts |-> NoTs, level |-> "", ctx |-> NoCtx, msg |-> NoMsg]
JsonRecord(t, level, ctx) ==
  [kind |-> "json", ts |-> t, level |-> level, ctx |-> ctx, msg |-> NoMsg]
TextRecord(t, word, msg) ==
  [kind |-> "text", ts |-> t, level |-> word, ctx |-> NoCtx, msg |-> msg]
JsonLine(t) == JsonRecord(t, "", NoCtx)
TextLine(t) == TextRecord(t, "INF", <<"Application started">>)

\* records whose fields exercise the classification of an entry
DbErrorLine ==
  JsonRecord(1, "Error", <<"Microsoft.", "EntityFrameworkCore", ".Database", ".Command">>)
DbTextLine == TextRecord(1, "ERR", <<"Executed DbCommand", " ", "(5ms)">>)

\* lines fed to the drivers on their own: records with a timestamp, records
\* without one, records whose timestamp cannot be parsed
DriverLines ==
  {EmptyLine, SpaceLine, GarbageLine, JsonNullLine}
    \cup {JsonLine(t) : t \in 1..MaxTs} \cup {TextLine(t) : t \in 1..MaxTs}
    \cup {JsonLine(NoTs), JsonLine(InvalidTs), TextLine(InvalidTs)}
    \cup {DbErrorLine, DbTextLine}

\* non-blank lines of the documents handed to the dispatcher
FeedLines == {GarbageLine} \cup {JsonLine(t) : t \in 1..MaxTs}

\* content.split('\n') always has at least one element
DocsOver(L) == UNION {[1..n -> L] : n \in 1..MaxLines}

\* `content` is falsy exactly when it is the empty string
isEmptyContent(lines) == lines = <<EmptyLine>>

\* line.trim() is the empty string
trimIsEmpty(line) == line.kind \in {"empty", "space"}

Null == [null |-> TRUE]

\* ----- records --------------------------------------------------------------
\* mapLogLevel(level): the level word of a text line, spelled out
mapLogLevel(level) ==
  CASE level = "WRN" -> "Warning"
    [] level = "ERR" -> "Error"
    [] level = "INF" -> "Information"
    [] level = "DBG" -> "Debug"
    [] level = "FTL" -> "Fatal"
    [] OTHER -> level

\* getSourceContextFromMessage(message): the context a text line is given
getSourceContextFromMessage(message) ==
  IF startsWith(message, <<"Executed DbCommand">>)
  THEN <<"EntityFrameworkCore", ".Database">>
  ELSE IF \/ startsWith(message, <<"Request starting">>)
          \/ startsWith(message, <<"Request finished">>)
          \/ startsWith(message, <<"Executing endpoint">>)
       THEN <<"AspNetCore", ".Routing">>
       ELSE NoCtx

\* a decoded record: absent fields are the falsy NoTs, "" and NoCtx
Data(ts, level, topCtx, propCtx) ==
  [Timestamp |-> ts, Level |-> level, SourceContext |-> topCtx,
   Properties |-> [SourceContext |-> propCtx]]

\* JSON.parse(line): it throws, or yields the decoded value (Null for the text null)
JSONparse(line) ==
  CASE line.kind = "json" ->
         [threw |-> FALSE, value |-> Data(line.ts, line.level, NoCtx, line.ctx)]
    [] line.kind = "jsonNull" -> [threw |-> FALSE, value |-> Null]
    [] OTHER -> [threw |-> TRUE, value |-> Null]

\* the fallback regex: a record, or Null when the line does not match
parseTextLogLine(line) ==
  IF line.kind = "text"
  THEN Data(line.ts, mapLogLevel(line.level),
            getSourceContextFromMessage(line.msg), NoCtx)
  ELSE Null

\* the record the entry is built from: JSON first, fallback grammar on failure
lineData(line) ==
  IF JSONparse(line).threw THEN parseTextLogLine(line) ELSE JSONparse(line).value

\* what one iteration of the driver loop does with a line:
\*   "skip"  continue before the entry is built (blank line, no grammar)
\*   "throw" data.Timestamp raises on null, swallowed by the outer catch
\*   "entry" one entry is pushed
lineOutcome(line) ==
  IF trimIsEmpty(line) THEN "skip"
  ELSE IF JSONparse(line).threw
       THEN (IF parseTextLogLine(line) = Null THEN "skip" ELSE "entry")
       ELSE (IF lineData(line) = Null THEN "throw" ELSE "entry")

\* ----- detectLogType --------------------------------------------------------
\* data.Properties?.SourceContext || data.SourceContext || ''
sourceContextOf(data) ==
  IF data.Properties.SourceContext # NoCtx
  THEN data.Properties.SourceContext
  ELSE data.SourceContext

\* the chain of substring tests with Migration tested after ORM
detectLogType_ormFirst(data) ==
  LET sourceContext == sourceContextOf(data)
  IN IF includes(sourceContext, <<"EntityFrameworkCore", ".Database">>) THEN "Database"
     ELSE IF includes(sourceContext, <<"EntityFrameworkCore">>) THEN "ORM"
     ELSE IF includes(sourceContext, <<"EntityFrameworkCore", ".Migrations">>) THEN "Migration"
     ELSE IF \/ includes(sourceContext, <<"AspNetCore", ".Hosting.Diagnostics">>)
             \/ includes(sourceContext, <<"AspNetCore", ".Routing">>)
             \/ includes(sourceContext, <<"AspNetCore", ".Mvc">>) THEN "HTTP"
     ELSE IF includes(sourceContext, <<"DataProtection">>) THEN "Security"
     ELSE IF includes(sourceContext, <<"StaticFiles">>) THEN "Static"
     ELSE IF includes(sourceContext, <<"Lifetime">>) THEN "App"
     ELSE IF includes(sourceContext, <<"Validation">>) THEN "Validation"
     ELSE IF data.Level = "Error" THEN "Error"
     ELSE IF data.Level = "Warning" THEN "Warning"
     ELSE "Log"

detectLogType(data) ==
  LET sourceContext == sourceContextOf(data)
  IN IF includes(sourceContext, <<"EntityFrameworkCore", ".Database">>) THEN "Database"
     ELSE IF includes(sourceContext, <<"EntityFrameworkCore", ".Migrations">>) THEN "Migration"
     ELSE IF includes(sourceContext, <<"EntityFrameworkCore">>) THEN "ORM"
     ELSE IF \/ includes(sourceContext, <<"AspNetCore", ".Hosting.Diagnostics">>)
             \/ includes(sourceContext, <<"AspNetCore", ".Routing">>)
             \/ includes(sourceContext, <<"AspNetCore", ".Mvc">>) THEN "HTTP"
     ELSE IF includes(sourceContext, <<"DataProtection">>) THEN "Security"
     ELSE IF includes(sourceContext, <<"StaticFiles">>) THEN "Static"
     ELSE IF includes(sourceContext, <<"Lifetime">>) THEN "App"
     ELSE IF includes(sourceContext, <<"Validation">>) THEN "Validation"
     ELSE IF data.Level = "Error" THEN "Error"
     ELSE IF data.Level = "Warning" THEN "Warning"
     ELSE "Log"

\* ----- formatDate and the date cache -----------------------------------------
\* DATE_CACHE_MAX is 10000 in the source; the model scales it down so that a
\* few distinct timestamps fill the cache.
DATE_CACHE_MAX == 2

\* A displayed string is a record [text, t]: the layout of the text and the
\* instant it shows.  asString(timestamp) is the timestamp string itself.
asString(timestamp) == [text |-> "timestamp", t |-> timestamp]

\* the worker's template literal over the getters of new Date(timestamp):
\* every getter of an invalid Date yields NaN and nothing raises
workerDateString(timestamp) ==
  IF getTime(timestamp) = NaN
  THEN [text |-> "NaN/NaN/NaN, NaN:NaN:NaN", t |-> NaN]
  ELSE [text |-> "DD/MM/YYYY, HH:mm:ss", t |-> getTime(timestamp)]

\* the service's date.toLocaleString('pt-PT', ...): an invalid Date yields the
\* text Invalid Date and nothing raises
serviceDateString(timestamp) ==
  IF getTime(timestamp) = NaN
  THEN [text |-> "Invalid Date", t |-> NaN]
  ELSE [text |-> "DD/MM/YYYY, HH:mm:ss", t |-> getTime(timestamp)]

dateString(impl, timestamp) ==
  IF impl = "worker" THEN workerDateString(timestamp) ELSE serviceDateString(timestamp)

\* a Map<string, string> with no key
EmptyCache == [k \in {} |-> asString(k)]

\* the store after a miss, when the cap is not tested
cacheAfterMiss_uncapped(cache, timestamp, formatted) ==
  [k \in DOMAIN cache \cup {timestamp} |->
     IF k = timestamp THEN formatted ELSE cache[k]]

\* if (dateCache.size < DATE_CACHE_MAX) dateCache.set(timestamp, formatted)
cacheAfterMiss(cache, timestamp, formatted) ==
  IF Cardinality(DOMAIN cache) < DATE_CACHE_MAX
  THEN [k \in DOMAIN cache \cup {timestamp} |->
          IF k = timestamp THEN formatted ELSE cache[k]]
  ELSE cache

\* formatDate(timestamp) of implementation impl on date cache `cache`:
\* the string returned and the cache afterwards
formatDate(impl, cache, timestamp) ==
  IF timestamp \in DOMAIN cache
  THEN [result |-> cache[timestamp], cache |-> cache]
  ELSE [result |-> dateString(impl, timestamp),
        cache |-> cacheAfterMiss(cache, timestamp, dateString(impl, timestamp))]

\* ----- entries --------------------------------------------------------------
\* rt is what a run reads from its surroundings: rt.impl the implementation
\* ("worker" or "service"), rt.now the reading of the clock

\* data.Timestamp || data.timestamp || new Date().toISOString()
timestampOf(data, now) == IF data.Timestamp # NoTs THEN data.Timestamp ELSE now

\* data.Level || 'Information'
levelOf(data) == IF data.Level # "" THEN data.Level ELSE "Information"

\* the entry pushed for a line
buildEntry(line, rt) ==
  LET data == lineData(line)
      timestamp == timestampOf(data, rt.now)
  IN [timestamp |-> timestamp,
      formattedDate |-> formatDate(rt.impl, EmptyCache, timestamp).result,
      hour |-> getHours(timestamp),
      type |-> detectLogType(data),
      level |-> levelOf(data),
      raw |-> line]

\* ----- the chunked parsing driver -------------------------------------------
\* comparator of the final sort, as the sort reads it: newest first; a NaN
\* difference (an operand whose timestamp cannot be parsed) counts as 0
compareLogs_ascending(a, b) ==
  IF getTime(a.timestamp) = NaN \/ getTime(b.timestamp) = NaN
  THEN 0
  ELSE getTime(a.timestamp) - getTime(b.timestamp)
compareLogs(a, b) ==
  IF getTime(a.timestamp) = NaN \/ getTime(b.timestamp) = NaN
  THEN 0
  ELSE getTime(b.timestamp) - getTime(a.timestamp)

\* Array.prototype.sort as V8 runs it on an array shorter than 64 elements:
\* the leading run is found (and reversed when strictly descending), the
\* other elements are placed by binary insertion.  Indices are 0-based as in
\* the engine; element i of the array is w[i + 1].
RECURSIVE runLength(_, _, _)
runLength(w, isDescending, idx) ==
  IF idx >= Len(w) THEN Len(w)
  ELSE LET order == compareLogs(w[idx + 1], w[idx])
       IN IF (isDescending /\ order >= 0) \/ (~isDescending /\ order < 0)
          THEN idx
          ELSE runLength(w, isDescending, idx + 1)

reverseRange(w, n) ==
  [i \in 1..Len(w) |-> IF i <= n THEN w[n + 1 - i] ELSE w[i]]

\* the array after the leading run was made ascending, and the run's length
countAndMakeRun(w) ==
  LET isDescending == compareLogs(w[2], w[1]) < 0
      len == runLength(w, isDescending, 2)
  IN [array |-> IF isDescending THEN reverseRange(w, len) ELSE w, length |-> len]

RECURSIVE binarySearch(_, _, _, _)
binarySearch(w, pivot, left, right) ==
  IF left >= right THEN left
  ELSE LET mid == left + ((right - left) \div 2)
       IN IF compareLogs(pivot, w[mid + 1]) < 0
          THEN binarySearch(w, pivot, left, mid)
          ELSE binarySearch(w, pivot, mid + 1, right)

RECURSIVE binaryInsertionSort(_, _)
binaryInsertionSort(w, start) ==
  IF start >= Len(w) THEN w
  ELSE LET pivot == w[start + 1]
           left == binarySearch(w, pivot, 0, start)
       IN binaryInsertionSort(
            SubSeq(w, 1, left) \o <<pivot>> \o SubSeq(w, left + 1, start)
              \o SubSeq(w, start + 2, Len(w)),
            start + 1)

\* logs.sort(comparator) omitted
sortLogs_unsorted(logs) == logs
sortLogs(logs) ==
  IF Len(logs) < 2 THEN logs
  ELSE binaryInsertionSort(countAndMakeRun(logs).array, countAndMakeRun(logs).length)

\* `continue` (and the swallowed exception) resume the for loop at i + 1
nextIndexAfterSkip_break(i, n) == n
nextIndexAfterSkip(i, n) == i + 1

\* the snapshot reported after the entry of line i was pushed, if any
chunkReport(i, chunkSize, total, logs) ==
  IF i % chunkSize = 0
  THEN <<[processed |-> i, total |-> total, logs |-> logs]>>
  ELSE <<>>

\* the for loop of the driver, from line index i (0-based) on:
\* logs accumulated so far, snapshots reported so far
\* what the body of the loop reads at line i (1-based): rt.now holds the
\* readings of the clock, one for each line
atLine(rt, i) == [impl |-> rt.impl, now |-> rt.now[i]]

RECURSIVE parseLoop(_, _, _, _, _, _)
parseLoop(lines, chunkSize, rt, i, logs, reported) ==
  IF i >= Len(lines) THEN [logs |-> logs, reported |-> reported]
  ELSE IF lineOutcome(lines[i + 1]) = "entry"
       THEN LET pushed == Append(logs, buildEntry(lines[i + 1], atLine(rt, i + 1)))
            IN parseLoop(lines, chunkSize, rt, i + 1, pushed,
                         reported \o chunkReport(i, chunkSize, Len(lines), pushed))
       ELSE parseLoop(lines, chunkSize, rt, nextIndexAfterSkip(i, Len(lines)),
                      logs, reported)

\* worker parseLogFile(content, chunkSize): the messages it posts, in order
parseLogFile(lines, chunkSize, now) ==
  LET run == parseLoop(lines, chunkSize, [impl |-> "worker", now |-> now], 0, <<>>, <<>>)
  IN run.reported \o
       <<[processed |-> Len(lines), total |-> Len(lines), logs |-> sortLogs(run.logs)]>>

\* LogParserService.parseLogFileChunked(content): the array it returns and
\* the snapshots it pushes to parsingProgress$
parseLogFileChunked(lines, now) ==
  LET run == parseLoop(lines, CHUNK_SIZE, [impl |-> "service", now |-> now], 0, <<>>, <<>>)
      sorted == sortLogs(run.logs)
  IN [logs |-> sorted,
      pushed |-> run.reported \o
        <<[processed |-> Len(lines), total |-> Len(lines), logs |-> sorted]>>]

\* the chunk size the worker falls back to when the request carries none
DefaultChunkSize == 5000

\* self.onmessage of the worker: the messages posted for one request
workerOnMessage(msg, now) ==
  IF msg.type = "PARSE_LOG" /\ ~isEmptyContent(msg.content)
  THEN parseLogFile(msg.content,
                    IF msg.chunkSize = 0 THEN DefaultChunkSize ELSE msg.chunkSize, now)
  ELSE <<>>


\* ----- the concurrency dispatcher ------------------------------------------
VARIABLES
  env,              \* what `new Worker(...)` does here: "ok", "throws", "undefined"
  worker,           \* this.worker is not null
  workerCreations,  \* number of `new Worker(...)` evaluations so far
  subjectValue,     \* current value of parsingProgress$
  feeds,            \* per parseLogFile subscription: closure state and what its observer saw
  inbox,            \* requests posted to the worker, not yet handled
  outbox,           \* messages posted by the worker, not yet handled by onmessage
  drv,              \* a driver run on its own: input and results
  call              \* a function or the date caches exercised on their own: arguments, state, results

vars == <<env, worker, workerCreations, subjectValue, feeds, inbox, outbox, drv, call>>

FeedIds == 1..MaxFeeds

\* the value parsingProgress$ is created with and reset to
ResetProgress == [processed |-> 0, total |-> 0, logs |-> <<>>]

IdleFeed ==
  [phase |-> "idle", mode |-> "none", content |-> <<>>, completed |-> FALSE,
   lastProgress |-> Null, timer |-> "none", sub |-> FALSE, received |-> <<>>,
   completeCalls |-> 0, completions |-> 0, exit |-> "none"]

\* constructor: worker stays null unless Worker exists and its creation succeeds
initializeWorker_keepsBroken(e) ==
  [worker |-> e \in {"ok", "throws"}, creations |-> IF e = "undefined" THEN 0 ELSE 1]
initializeWorker(e) ==
  [worker |-> e = "ok", creations |-> IF e = "undefined" THEN 0 ELSE 1]

\* clearTimeout(timeoutId)
clearTimeout(f) == [f EXCEPT !.timer = IF @ = "pending" THEN "cleared" ELSE @]

\* the teardown parseLogFile returns: background mode only
teardown(f) ==
  IF f.mode = "worker" THEN [clearTimeout(f) EXCEPT !.sub = FALSE] ELSE f

\* observer.next(progress): nothing reaches a closed subscriber
observerNext(f, progress) ==
  IF f.phase = "open" THEN [f EXCEPT !.received = Append(@, progress)] ELSE f

\* observer.complete(): signals once, then runs the teardown
observerComplete(f, how) ==
  LET called == [f EXCEPT !.completeCalls = @ + 1]
  IN IF f.phase = "open"
     THEN teardown([called EXCEPT !.completions = @ + 1, !.phase = "closed", !.exit = how])
     ELSE called

\* the completion test of the progress callback
isTerminal_totalOnly(progress) == progress.total > 0
isTerminal(progress) == progress.total > 0 /\ progress.processed >= progress.total

\* the callback subscribed to parsingProgress$
onProgress(f, progress) ==
  LET seen == [observerNext(f, progress) EXCEPT !.lastProgress = progress]
  IN IF isTerminal(progress) /\ ~f.completed
     THEN [observerComplete(clearTimeout([seen EXCEPT !.completed = TRUE]), "complete")
             EXCEPT !.sub = FALSE]
     ELSE seen

\* a setTimeout callback runs once
timerAfterFire_interval == "pending"
timerAfterFire == "fired"

\* the callback of the 30 s safety timer
onTimeout(f) ==
  LET fired == [f EXCEPT !.timer = timerAfterFire]
  IN IF ~f.completed /\ f.lastProgress # Null
     THEN [observerComplete([fired EXCEPT !.completed = TRUE], "timeout") EXCEPT !.sub = FALSE]
     ELSE fired

\* parsingProgress$.next(v): every live subscription's callback runs
subjectNext(fs, v) == [f \in FeedIds |-> IF fs[f].sub THEN onProgress(fs[f], v) ELSE fs[f]]

RECURSIVE subjectNextAll(_, _)
subjectNextAll(fs, vs) ==
  IF vs = <<>> THEN fs ELSE subjectNextAll(subjectNext(fs, Head(vs)), Tail(vs))

\* a BehaviorSubject hands its current value to a new subscriber at once
replayOnSubscribe_none(v) == <<>>
replayOnSubscribe(v) == <<v>>

\* what the fallback callback hands to the observer
fallbackEmissions_withChunks(lines, now) ==
  LET r == parseLogFileChunked(lines, now)
  IN SubSeq(r.pushed, 1, Len(r.pushed) - 1) \o
       <<[processed |-> Len(r.logs), total |-> Len(r.logs), logs |-> r.logs]>>
fallbackEmissions(lines, now) ==
  LET logs == parseLogFileChunked(lines, now).logs
  IN <<[processed |-> Len(logs), total |-> Len(logs), logs |-> logs]>>

RECURSIVE observerNextAll(_, _)
observerNextAll(f, vs) ==
  IF vs = <<>> THEN f ELSE observerNextAll(observerNext(f, Head(vs)), Tail(vs))


\* ----- operations of the dispatcher ----------------------------------------
NotAgain == [done |-> FALSE, now |-> <<>>, logs |-> <<>>]

DrvIdle == [phase |-> "idle", lines |-> <<>>, chunkSize |-> 0, now |-> <<>>,
            posted |-> <<>>, chunked |-> [logs |-> <<>>, pushed |-> <<>>],
            again |-> NotAgain]

\* no pure function is being exercised
CallIdle == [op |-> "none"]

Init ==
  /\ env \in {"ok", "throws", "undefined"}
  /\ worker = initializeWorker(env).worker
  /\ workerCreations = initializeWorker(env).creations
  /\ subjectValue = ResetProgress
  /\ feeds = [f \in FeedIds |-> IdleFeed]
  /\ inbox = <<>>
  /\ outbox = <<>>
  /\ drv = DrvIdle
  /\ call = CallIdle

\* feeds are subscribed in the order of their ids
canSubscribe(f) ==
  /\ feeds[f].phase = "idle"
  /\ \A g \in FeedIds : g < f => feeds[g].phase # "idle"

\* parseLogFile(content).subscribe(...) while this.worker is set
SubscribeWorker(f, content) ==
  /\ canSubscribe(f)
  /\ worker
  /\ LET others == subjectNext(feeds, ResetProgress)
         fresh == [IdleFeed EXCEPT !.phase = "open", !.mode = "worker",
                                   !.content = content, !.timer = "pending", !.sub = TRUE]
         replay == replayOnSubscribe(ResetProgress)
         started == IF replay = <<>> THEN fresh ELSE onProgress(fresh, replay[1])
     IN feeds' = [others EXCEPT ![f] = started]
  /\ subjectValue' = ResetProgress
  /\ inbox' = Append(inbox, [type |-> "PARSE_LOG", content |-> content, chunkSize |-> CHUNK_SIZE])
  /\ UNCHANGED <<env, worker, workerCreations, outbox, drv, call>>

\* parseLogFile(content).subscribe(...) while this.worker is null
SubscribeFallback(f, content) ==
  /\ canSubscribe(f)
  /\ ~worker
  /\ feeds' = [feeds EXCEPT ![f] = [IdleFeed EXCEPT !.phase = "open", !.mode = "fallback",
                                                   !.content = content, !.timer = "pending"]]
  /\ UNCHANGED <<env, worker, workerCreations, subjectValue, inbox, outbox, drv, call>>

\* the worker thread handles one request
WorkerRun ==
  /\ inbox # <<>>
  /\ \E now \in Readings(Len(Head(inbox).content)) :
       outbox' = outbox \o workerOnMessage(Head(inbox), now)
  /\ inbox' = Tail(inbox)
  /\ UNCHANGED <<env, worker, workerCreations, subjectValue, feeds, drv, call>>

\* this.worker.onmessage: one posted message reaches the main thread
WorkerMessage ==
  /\ outbox # <<>>
  /\ subjectValue' = Head(outbox)
  /\ feeds' = subjectNext(feeds, Head(outbox))
  /\ outbox' = Tail(outbox)
  /\ UNCHANGED <<env, worker, workerCreations, inbox, drv, call>>

\* the 30 s safety timer of a background feed fires
Timeout(f) ==
  /\ feeds[f].mode = "worker"
  /\ feeds[f].timer = "pending"
  /\ feeds' = [feeds EXCEPT ![f] = onTimeout(feeds[f])]
  /\ UNCHANGED <<env, worker, workerCreations, subjectValue, inbox, outbox, drv, call>>

\* the setTimeout(..., 0) callback of a fallback feed runs
FallbackTick(f) ==
  /\ feeds[f].mode = "fallback"
  /\ feeds[f].timer = "pending"
  /\ \E now \in Readings(Len(feeds[f].content)) :
       LET pushed == parseLogFileChunked(feeds[f].content, now).pushed
           told == subjectNextAll(feeds, pushed)
           fired == [told[f] EXCEPT !.timer = timerAfterFire]
       IN /\ feeds' = [told EXCEPT ![f] =
                         observerComplete(
                           observerNextAll(fired, fallbackEmissions(feeds[f].content, now)),
                           "complete")]
          /\ subjectValue' = pushed[Len(pushed)]
  /\ UNCHANGED <<env, worker, workerCreations, inbox, outbox, drv, call>>

\* the caller unsubscribes from an open feed
Unsubscribe(f) ==
  /\ feeds[f].phase = "open"
  /\ feeds' = [feeds EXCEPT ![f] =
                 teardown([feeds[f] EXCEPT !.phase = "closed", !.exit = "unsubscribe"])]
  /\ UNCHANGED <<env, worker, workerCreations, subjectValue, inbox, outbox, drv, call>>

\* the timestamp carried by a record at line i (1-based) of a dispatcher document
tsAt(i) == ((i - 1) % MaxTs) + 1

\* the documents handed to the dispatcher: the empty document, which the
\* worker's handler ignores, and the documents of garbage lines and records
\* whose timestamps cycle with the line number
FeedDocs ==
  {<<EmptyLine>>} \cup
    {d \in DocsOver(FeedLines) : \A i \in 1..Len(d) : d[i].kind = "json" => d[i].ts = tsAt(i)}

Next ==
  \/ \E f \in FeedIds, content \in FeedDocs : SubscribeWorker(f, content)
  \/ \E f \in FeedIds, content \in FeedDocs : SubscribeFallback(f, content)
  \/ WorkerRun
  \/ WorkerMessage
  \/ \E f \in FeedIds : Timeout(f)
  \/ \E f \in FeedIds : FallbackTick(f)
  \/ \E f \in FeedIds : Unsubscribe(f)

Spec == Init /\ [][Next]_vars

\* the event loop runs the callback of a safety timer that stays pending;
\* the worker thread is not assumed to make progress
SpecLive ==
  /\ Init
  /\ [][Next]_vars
  /\ \A f \in FeedIds : WF_vars(Timeout(f))

\* ----- the drivers run on their own ------------------------------------------
\* nothing of the dispatcher moves while a driver or a function runs on its own
DispatcherAtRest ==
  /\ env = "ok"
  /\ worker = initializeWorker(env).worker
  /\ workerCreations = initializeWorker(env).creations
  /\ subjectValue = ResetProgress
  /\ feeds = [f \in FeedIds |-> IdleFeed]
  /\ inbox = <<>>
  /\ outbox = <<>>

InitDriver ==
  /\ DispatcherAtRest
  /\ call = CallIdle
  /\ \E lines \in DocsOver(DriverLines), c \in 1..MaxChunk :
       drv = [DrvIdle EXCEPT !.phase = "input", !.lines = lines, !.chunkSize = c]

\* the worker's parseLogFile(content, chunkSize)
RunWorkerDriver ==
  /\ drv.phase = "input"
  /\ \E now \in Readings(Len(drv.lines)) :
       drv' = [drv EXCEPT !.phase = "worker", !.now = now,
                          !.posted = parseLogFile(drv.lines, drv.chunkSize, now)]
  /\ UNCHANGED <<env, worker, workerCreations, subjectValue, feeds, inbox, outbox, call>>

\* the service's parseLogFileChunked(content)
RunChunkedDriver ==
  /\ drv.phase = "input"
  /\ \E now \in Readings(Len(drv.lines)) :
       drv' = [drv EXCEPT !.phase = "chunked", !.now = now,
                          !.chunked = parseLogFileChunked(drv.lines, now)]
  /\ UNCHANGED <<env, worker, workerCreations, subjectValue, feeds, inbox, outbox, call>>

\* the same document is parsed once more by the same driver, not earlier
\* than the first time: the entries of its terminal snapshot
ParseAgain ==
  /\ drv.phase \in {"worker", "chunked"}
  /\ ~drv.again.done
  /\ \E later \in Readings(Len(drv.lines)) :
       /\ later[1] >= drv.now[Len(drv.now)]
       /\ drv' = [drv EXCEPT !.again =
             [done |-> TRUE, now |-> later,
              logs |-> IF drv.phase = "worker"
                       THEN parseLogFile(drv.lines, drv.chunkSize, later)[
                              Len(parseLogFile(drv.lines, drv.chunkSize, later))].logs
                       ELSE parseLogFileChunked(drv.lines, later).logs]]
  /\ UNCHANGED <<env, worker, workerCreations, subjectValue, feeds, inbox, outbox, call>>

NextDriver == RunWorkerDriver \/ RunChunkedDriver \/ ParseAgain

SpecDriver == InitDriver /\ [][NextDriver]_vars


\* ----- regular expressions over token strings --------------------------------
\* A pattern is a sequence of elements, an element a sequence of
\* alternatives tried in order, an alternative a quantified character class:
\* toks (or, when neg, everything but toks), repeated min..max times,
\* greedily unless lazy; the alternative with cap is the capture group.
Atom(neg, toks, min, max, lazy, cap) ==
  [neg |-> neg, toks |-> toks, min |-> min, max |-> max, lazy |-> lazy, cap |-> cap]

\* a keyword under the i flag matches in either case
lowerCase(word) ==
  CASE word = "SELECT" -> "select"
    [] word = "FROM" -> "from"
    [] word = "WHERE" -> "where"
    [] word = "INSERT" -> "insert"
    [] word = "INTO" -> "into"
    [] word = "UPDATE" -> "update"
    [] word = "DELETE" -> "delete"
    [] word = "ORDER BY" -> "order by"
    [] word = "GROUP BY" -> "group by"
    [] word = "LIMIT" -> "limit"
    [] word = "dbo" -> "DBO"
    [] OTHER -> word

Unbounded == 1000

\* WORD under the i flag; a literal; \s+; \[? and \]?; [^\]]+ and [^\]]*; .*?
Keyword(word) == <<Atom(FALSE, {word, lowerCase(word)}, 1, 1, FALSE, FALSE)>>
Literal(tok) == <<Atom(FALSE, {tok}, 1, 1, FALSE, FALSE)>>
Blanks == <<Atom(FALSE, {" ", "\n"}, 1, Unbounded, FALSE, FALSE)>>
Optional(tok) == <<Atom(FALSE, {tok}, 0, 1, FALSE, FALSE)>>
NotBracket(min, cap) == Atom(TRUE, {"]"}, min, Unbounded, FALSE, cap)
AnyLazy(cap) == <<Atom(TRUE, {}, 0, Unbounded, TRUE, cap)>>

inClass(tok, atom) == (tok \in atom.toks) # atom.neg

\* how many tokens from pos on the class can take, at most atom.max
classRun(s, pos, atom) ==
  LET fits(c) == \A j \in 0..(c - 1) : pos + j <= Len(s) /\ inClass(s[pos + j], atom)
      lengths == {c \in 0..(Len(s) + 1 - pos) : c <= atom.max /\ fits(c)}
  IN CHOOSE c \in lengths : \A d \in lengths : d <= c

NoMatch == [ok |-> FALSE, start |-> 0, end |-> 0, cap |-> <<>>]

\* the backtracking matcher: elements k.. of pat against s from pos on; the
\* first repetition count, in the order of the quantifier, that lets the
\* rest of the pattern match
RECURSIVE matchHere(_, _, _, _)
RECURSIVE matchAlternatives(_, _, _, _, _)
matchAtom(pat, k, s, pos, atom) ==
  LET rest == [c \in atom.min..classRun(s, pos, atom) |-> matchHere(pat, k + 1, s, pos + c)]
      counts == {c \in DOMAIN rest : rest[c].ok}
      count == IF atom.lazy
               THEN CHOOSE x \in counts : \A y \in counts : x <= y
               ELSE CHOOSE x \in counts : \A y \in counts : y <= x
  IN IF counts = {} THEN NoMatch
     ELSE [ok |-> TRUE, start |-> pos, end |-> rest[count].end,
           cap |-> IF atom.cap THEN SubSeq(s, pos, pos + count - 1) ELSE rest[count].cap]

matchAlternatives(pat, k, s, pos, a) ==
  IF a > Len(pat[k]) THEN NoMatch
  ELSE LET found == matchAtom(pat, k, s, pos, pat[k][a])
       IN IF found.ok THEN found ELSE matchAlternatives(pat, k, s, pos, a + 1)

matchHere(pat, k, s, pos) ==
  IF k > Len(pat) THEN [ok |-> TRUE, start |-> pos, end |-> pos, cap |-> <<>>]
  ELSE matchAlternatives(pat, k, s, pos, 1)

\* s.match(pattern): the leftmost match; end is the position after it
match(s, pat) ==
  LET found == [i \in 1..(Len(s) + 1) |-> matchHere(pat, 1, s, i)]
      starts == {i \in DOMAIN found : found[i].ok}
  IN IF starts = {} THEN NoMatch
     ELSE found[CHOOSE i \in starts : \A j \in starts : i <= j]

\* a match of a pattern that begins with ^
matchAtStart(s, pat) == matchHere(pat, 1, s, 1)

\* s.trim()
RECURSIVE trimStart(_)
trimStart(s) ==
  IF s # <<>> /\ Head(s) \in {" ", "\n"} THEN trimStart(Tail(s)) ELSE s

RECURSIVE trimEnd(_)
trimEnd(s) ==
  IF s # <<>> /\ s[Len(s)] \in {" ", "\n"} THEN trimEnd(SubSeq(s, 1, Len(s) - 1)) ELSE s

trim(s) == trimEnd(trimStart(s))

\* s.replace(/[\[\]]/g, '')
withoutBrackets(s) ==
  LET keep(tok) == tok \notin {"[", "]"} IN SelectSeq(s, keep)

\* String.prototype.toUpperCase, token by token: a keyword in small letters
\* becomes the keyword, the character sharp s becomes the two characters SS
\* (the text grows by one character), the other tokens of the model hold no
\* keyword in either case
SqlKeywords ==
  {"SELECT", "FROM", "WHERE", "INSERT", "INTO", "UPDATE", "DELETE", "ORDER BY",
   "GROUP BY", "LIMIT"}

upperOf(tok) ==
  IF tok = "ß" THEN "SS"
  ELSE IF \E word \in SqlKeywords : tok = lowerCase(word)
       THEN CHOOSE word \in SqlKeywords : tok = lowerCase(word)
       ELSE tok

toUpperCase(s) == [i \in 1..Len(s) |-> upperOf(s[i])]

\* s.length, in characters
RECURSIVE lengthOf(_)
lengthOf(s) == IF s = <<>> THEN 0 ELSE Len(Head(s)) + lengthOf(Tail(s))

\* the position (0-based, in characters) at which token i of s begins
offsetOf(s, i) == lengthOf(SubSeq(s, 1, i - 1))

\* s.substring(start, end), the positions in characters: both are clamped to
\* the length and swapped when start > end; a token the cut runs through
\* gives the characters inside the cut
substring(s, start, end) ==
  LET n == lengthOf(s)
      a == IF start < n THEN start ELSE n
      b == IF end < n THEN end ELSE n
      lo == IF a < b THEN a ELSE b
      hi == IF a < b THEN b ELSE a
      from(i) == IF lo > offsetOf(s, i) THEN lo ELSE offsetOf(s, i)
      to(i) == IF hi < offsetOf(s, i + 1) THEN hi ELSE offsetOf(s, i + 1)
      inside == {i \in 1..Len(s) : from(i) < to(i)}
      first == CHOOSE i \in inside : \A j \in inside : i <= j
  IN [k \in 1..Cardinality(inside) |->
        SubSeq(s[first + k - 1], from(first + k - 1) - offsetOf(s, first + k - 1) + 1,
               to(first + k - 1) - offsetOf(s, first + k - 1))]

\* s.indexOf(word, from): the position (0-based, in characters) of the first
\* token word at or after from, -1 when there is none
indexOfWord(s, word, from) ==
  LET at == {i \in 1..Len(s) : s[i] = word /\ offsetOf(s, i) >= from}
  IN IF at = {} THEN -1 ELSE offsetOf(s, CHOOSE i \in at : \A j \in at : i <= j)

\* ----- the date caches exercised on their own --------------------------------
\* the timestamps handed to formatDate: written in records, read from the
\* clock, or unparseable
DateInputs == (1..(MaxTs + 1)) \cup {InvalidTs}

InitDates ==
  /\ DispatcherAtRest
  /\ drv = DrvIdle
  /\ call = [op |-> "formatDate",
             caches |-> [worker |-> EmptyCache, service |-> EmptyCache],
             impl |-> "none", timestamp |-> NoTs, result |-> asString(NoTs)]

\* one formatDate(timestamp) call, in the worker or in the service; each has
\* a date cache of its own
FormatDate(impl, timestamp) ==
  /\ call.op = "formatDate"
  /\ call' = [call EXCEPT
       !.caches[impl] = formatDate(impl, call.caches[impl], timestamp).cache,
       !.impl = impl,
       !.timestamp = timestamp,
       !.result = formatDate(impl, call.caches[impl], timestamp).result]
  /\ UNCHANGED <<env, worker, workerCreations, subjectValue, feeds, inbox, outbox, drv>>

NextDates ==
  \E impl \in {"worker", "service"}, timestamp \in DateInputs : FormatDate(impl, timestamp)

SpecDates == InitDates /\ [][NextDates]_vars

\* ----- detectLogType exercised on its own ------------------------------------
\* the words SourceContext strings are made of
CtxTokens ==
  {"Microsoft.", "EntityFrameworkCore", ".Database", ".Migrations", "AspNetCore",
   ".Hosting.Diagnostics", ".Routing", ".Mvc", "DataProtection", "StaticFiles",
   "Lifetime", "Validation", "MyApp"}

Contexts == UNION {[1..n -> CtxTokens] : n \in 0..MaxCtx}

\* the top-level SourceContext of the records handed to detectLogType
TopContexts == {NoCtx, <<"Validation">>, <<"EntityFrameworkCore", ".Migrations">>}

Levels == {"", "Information", "Warning", "Error"}

InitDetect ==
  /\ DispatcherAtRest
  /\ drv = DrvIdle
  /\ \E level \in Levels, top \in TopContexts, prop \in Contexts :
       call = [op |-> "detectLogType", data |-> Data(NoTs, level, top, prop),
               done |-> FALSE, type |-> ""]

DetectLogType ==
  /\ call.op = "detectLogType"
  /\ ~call.done
  /\ call' = [call EXCEPT !.done = TRUE, !.type = detectLogType(call.data)]
  /\ UNCHANGED <<env, worker, workerCreations, subjectValue, feeds, inbox, outbox, drv>>

NextDetect == DetectLogType

SpecDetect == InitDetect /\ [][NextDetect]_vars

\* ----- getStatistics ---------------------------------------------------------
\* the keys 0..23 are set to 0 first
HourKeys == 0..23

\* entriesByHour[log.hour]++ for every log: a key outside 0..23 is created by
\* incrementing undefined, which leaves NaN under it
getStatistics(logs) ==
  [totalEntries |-> Len(logs),
   entriesByHour |->
     [h \in HourKeys \cup {logs[i].hour : i \in 1..Len(logs)} |->
        IF h \in HourKeys
        THEN Cardinality({i \in 1..Len(logs) : logs[i].hour = h})
        ELSE NaN]]

\* the hours of the entries handed to getStatistics: what getHours gave the
\* parser, NaN for a timestamp that cannot be parsed
StatHours == {0, 9, 14, 23, NaN}

InitStats ==
  /\ DispatcherAtRest
  /\ drv = DrvIdle
  /\ \E n \in 0..MaxLogs : \E hours \in [1..n -> StatHours] :
       call = [op |-> "getStatistics",
               logs |-> [i \in 1..n |-> [hour |-> hours[i]]],
               done |-> FALSE,
               stats |-> [totalEntries |-> 0, entriesByHour |-> <<>>]]

GetStatistics ==
  /\ call.op = "getStatistics"
  /\ ~call.done
  /\ call' = [call EXCEPT !.done = TRUE, !.stats = getStatistics(call.logs)]
  /\ UNCHANGED <<env, worker, workerCreations, subjectValue, feeds, inbox, outbox, drv>>

NextStats == GetStatistics

SpecStats == InitStats /\ [][NextStats]_vars

\* ----- formatMessage ---------------------------------------------------------
\* A message is a sequence of tokens: Txt(s) is text without braces, Ph(name)
\* the text {name}.  A property name is the sequence of its characters (a
\* word counts as one character).
Txt(s) == [ph |-> FALSE, name |-> <<s>>]
Ph(name) == [ph |-> TRUE, name |-> name]

\* the characters $& in a replacement string
DollarAmp == Txt("$&")

Digits == {"0", "1", "2"}

\* new RegExp('{' + key + '}', 'g') raises a SyntaxError (nothing to repeat)
\* when the braces enclose digits only: they then read as a quantifier
invalidRegExp(key) == key # <<>> /\ \A i \in 1..Len(key) : key[i] \in Digits

\* the regular expression built from key matches the placeholder token: the
\* key is not escaped, a dot in it matches any character
regExpMatches(key, token) ==
  /\ token.ph
  /\ Len(token.name) = Len(key)
  /\ \A i \in 1..Len(key) : key[i] = "." \/ key[i] = token.name[i]

\* a property value: what typeof says of it, its Name field (empty when it
\* has none), its string conversion and its JSON serialization
Value(kind, name, str, json) == [kind |-> kind, Name |-> name, str |-> str, json |-> json]

\* let stringValue = value; if (typeof value === 'object' && value !== null) ...
stringValueOf(value) ==
  IF value.kind = "object"
  THEN IF value.Name # <<>> THEN value.Name
       ELSE IF value.str # <<Txt("[object Object]")>> THEN value.str
       ELSE value.json
  ELSE value.str

\* one match replaced by the replacement string, $& standing for the match
expandReplacement(stringValue, matched) ==
  [i \in 1..Len(stringValue) |->
     IF stringValue[i] = DollarAmp THEN matched ELSE stringValue[i]]

\* message.replace(new RegExp(placeholder, 'g'), stringValue)
RECURSIVE replaceAll(_, _, _)
replaceAll(message, key, stringValue) ==
  IF message = <<>> THEN <<>>
  ELSE (IF regExpMatches(key, Head(message))
        THEN expandReplacement(stringValue, Head(message))
        ELSE <<Head(message)>>)
         \o replaceAll(Tail(message), key, stringValue)

\* Object.keys(properties).forEach(...): properties is the sequence of
\* [key, value] pairs in the order of Object.keys
RECURSIVE replaceKeys(_, _)
replaceKeys(message, properties) ==
  IF properties = <<>> THEN [threw |-> FALSE, message |-> message]
  ELSE IF invalidRegExp(Head(properties).key)
       THEN [threw |-> TRUE, message |-> <<>>]
       ELSE replaceKeys(
              replaceAll(message, Head(properties).key, stringValueOf(Head(properties).value)),
              Tail(properties))

\* formatMessage(template, properties): the message, or the exception
formatMessage(template, properties) ==
  IF template = <<>> THEN [threw |-> FALSE, message |-> <<Txt("N/A")>>]
  ELSE replaceKeys(template, properties)

\* the tokens of the templates handed to formatMessage
TemplateTokens ==
  {Txt("took"), Ph(<<"op">>), Ph(<<"0">>), Ph(<<"a", ".", "b">>), Ph(<<"a", "X", "b">>)}

Templates == UNION {[1..n -> TemplateTokens] : n \in 0..MaxTemplate}

\* property names: a word, a positional name, a dotted name
PropertyKeys == {<<"op">>, <<"0">>, <<"a", ".", "b">>}

\* property values: strings, a number, null, objects with and without a
\* Name field, an array
PropertyValues ==
  {Value("string", <<>>, <<Txt("save")>>, <<Txt("\"save\"")>>),
   Value("string", <<>>, <<Ph(<<"op">>)>>, <<Txt("\"{op}\"")>>),
   Value("string", <<>>, <<DollarAmp>>, <<Txt("\"$&\"")>>),
   Value("number", <<>>, <<Txt("12")>>, <<Txt("12")>>),
   Value("null", <<>>, <<Txt("null")>>, <<Txt("null")>>),
   Value("object", <<Txt("Alice")>>, <<Txt("[object Object]")>>, <<Txt("{\"Name\":\"Alice\"}")>>),
   Value("object", <<>>, <<Txt("[object Object]")>>, <<Txt("{\"Id\":7}")>>),
   Value("object", <<>>, <<Txt("1,2")>>, <<Txt("[1,2]")>>)}

\* Object.keys lists integer-like names before the others
keysInOrder(properties) ==
  \A i, j \in 1..Len(properties) :
    i < j => /\ properties[i].key # properties[j].key
             /\ ~invalidRegExp(properties[j].key) \/ invalidRegExp(properties[i].key)

PropertyMaps ==
  {properties \in UNION {[1..n -> [key : PropertyKeys, value : PropertyValues]] :
                           n \in 0..MaxProps} : keysInOrder(properties)}

InitMessage ==
  /\ DispatcherAtRest
  /\ drv = DrvIdle
  /\ \E template \in Templates, properties \in PropertyMaps :
       call = [op |-> "formatMessage", template |-> template, properties |-> properties,
               done |-> FALSE, result |-> [threw |-> FALSE, message |-> <<>>]]

FormatMessage ==
  /\ call.op = "formatMessage"
  /\ ~call.done
  /\ call' = [call EXCEPT !.done = TRUE,
                          !.result = formatMessage(call.template, call.properties)]
  /\ UNCHANGED <<env, worker, workerCreations, subjectValue, feeds, inbox, outbox, drv>>

NextMessage == FormatMessage

SpecMessage == InitMessage /\ [][NextMessage]_vars

\* ----- formatSql --------------------------------------------------------------
\* /^Executed DbCommand.*?\]/s
PrefixPattern == <<Literal("Executed DbCommand"), AnyLazy(FALSE), Literal("]")>>
\* /SELECT\s+(.*?)\s+FROM/is
SelectPattern == <<Keyword("SELECT"), Blanks, AnyLazy(TRUE), Blanks, Keyword("FROM")>>
\* /FROM\s+\[?(?:dbo|[^\]]*)\]?\.\[?([^\]]+)\]?/i
FromPattern ==
  <<Keyword("FROM"), Blanks, Optional("["),
    <<Keyword("dbo")[1], NotBracket(0, FALSE)>>,
    Optional("]"), Literal("."), Optional("["), <<NotBracket(1, TRUE)>>, Optional("]")>>
\* /INSERT\s+INTO\s+\[?([^\]]+)\]?/i
InsertPattern ==
  <<Keyword("INSERT"), Blanks, Keyword("INTO"), Blanks,
    Optional("["), <<NotBracket(1, TRUE)>>, Optional("]")>>
\* /UPDATE\s+\[?([^\]]+)\]?/i
UpdatePattern ==
  <<Keyword("UPDATE"), Blanks, Optional("["), <<NotBracket(1, TRUE)>>, Optional("]")>>
\* /DELETE\s+FROM\s+\[?([^\]]+)\]?/i
DeletePattern ==
  <<Keyword("DELETE"), Blanks, Keyword("FROM"), Blanks,
    Optional("["), <<NotBracket(1, TRUE)>>, Optional("]")>>

\* the summary string, by its parts: the marker of the statement kind
\* ("text" for the cut text, "empty" for a falsy input returned as is), the
\* column count, the text inside the table marker, the text inside the
\* where marker when there is one, the cut text
Summary(kind, columns, table, hasWhere, where, text) ==
  [kind |-> kind, columns |-> columns, table |-> table,
   hasWhere |-> hasWhere, where |-> where, text |-> text]

\* sql.replace(PrefixPattern, '').trim()
stripPrefix(sql) ==
  trim(IF matchAtStart(sql, PrefixPattern).ok
       THEN SubSeq(sql, matchAtStart(sql, PrefixPattern).end, Len(sql))
       ELSE sql)

\* the WHERE extraction with the three keywords searched from the start of
\* the text
whereMatch_fromStart(sql) ==
  LET upper == toUpperCase(sql)
      whereIndex == indexOfWord(upper, "WHERE", 0)
      ends == {lengthOf(sql)} \cup
                ({indexOfWord(upper, word, 0) :
                    word \in {"ORDER BY", "GROUP BY", "LIMIT"}} \ {-1})
      endIndex == CHOOSE e \in ends : \A x \in ends : e <= x
  IN IF whereIndex = -1 THEN [found |-> FALSE, text |-> <<>>]
     ELSE [found |-> TRUE, text |-> trim(substring(sql, whereIndex + 5, endIndex))]

\* the text between WHERE and the nearest of ORDER BY, GROUP BY, LIMIT and
\* the end: [found, text]; the positions are found in sql.toUpperCase() and
\* the text is cut out of sql at those positions
whereMatch(sql) ==
  LET upper == toUpperCase(sql)
      whereIndex == indexOfWord(upper, "WHERE", 0)
      ends == {lengthOf(sql)} \cup
                ({indexOfWord(upper, word, whereIndex) :
                    word \in {"ORDER BY", "GROUP BY", "LIMIT"}} \ {-1})
      endIndex == CHOOSE e \in ends : \A x \in ends : e <= x
  IN IF whereIndex = -1 THEN [found |-> FALSE, text |-> <<>>]
     ELSE [found |-> TRUE, text |-> trim(substring(sql, whereIndex + 5, endIndex))]

\* selectMatch[1].split(',').length
columnCount(projection) ==
  Cardinality({i \in 1..Len(projection) : projection[i] = ","}) + 1

\* the summary of a statement that the four signatures are tried on in the
\* order INSERT, SELECT, UPDATE, DELETE
summarize_insertFirst(sql) ==
  LET where == whereMatch(sql)
  IN IF match(sql, InsertPattern).ok
     THEN Summary("insert", 0, withoutBrackets(match(sql, InsertPattern).cap),
                  FALSE, <<>>, <<>>)
     ELSE IF match(sql, SelectPattern).ok
     THEN Summary("select", columnCount(match(sql, SelectPattern).cap),
                  IF match(sql, FromPattern).ok
                  THEN withoutBrackets(match(sql, FromPattern).cap)
                  ELSE <<"Unknown">>,
                  where.found, trim(withoutBrackets(where.text)), <<>>)
     ELSE IF match(sql, UpdatePattern).ok
     THEN Summary("update", 0, withoutBrackets(match(sql, UpdatePattern).cap),
                  where.found, trim(withoutBrackets(where.text)), <<>>)
     ELSE IF match(sql, DeletePattern).ok
     THEN Summary("delete", 0, withoutBrackets(match(sql, DeletePattern).cap),
                  where.found, withoutBrackets(trim(where.text)), <<>>)
     ELSE Summary("text", 0, <<>>, FALSE, <<>>,
                  SubSeq(sql, 1, IF Len(sql) < SummaryLength THEN Len(sql) ELSE SummaryLength)
                    \o <<"...">>)

\* the if / else if chain over selectMatch, insertMatch, updateMatch, deleteMatch
summarize(sql) ==
  LET where == whereMatch(sql)
  IN IF match(sql, SelectPattern).ok
     THEN Summary("select", columnCount(match(sql, SelectPattern).cap),
                  IF match(sql, FromPattern).ok
                  THEN withoutBrackets(match(sql, FromPattern).cap)
                  ELSE <<"Unknown">>,
                  where.found, trim(withoutBrackets(where.text)), <<>>)
     ELSE IF match(sql, InsertPattern).ok
     THEN Summary("insert", 0, withoutBrackets(match(sql, InsertPattern).cap),
                  FALSE, <<>>, <<>>)
     ELSE IF match(sql, UpdatePattern).ok
     THEN Summary("update", 0, withoutBrackets(match(sql, UpdatePattern).cap),
                  where.found, trim(withoutBrackets(where.text)), <<>>)
     ELSE IF match(sql, DeletePattern).ok
     THEN Summary("delete", 0, withoutBrackets(match(sql, DeletePattern).cap),
                  where.found, withoutBrackets(trim(where.text)), <<>>)
     ELSE Summary("text", 0, <<>>, FALSE, <<>>,
                  SubSeq(sql, 1, IF Len(sql) < SummaryLength THEN Len(sql) ELSE SummaryLength)
                    \o <<"...">>)

\* formatSql(sql)
formatSql(sql) ==
  IF sql = <<>> THEN Summary("empty", 0, <<>>, FALSE, <<>>, <<>>)
  ELSE summarize(stripPrefix(sql))

\* ----- formatSql exercised on its own ------------------------------------------
\* the statements handed to formatSql, by their parts
\*   prefix  "none", "parameters" (Executed DbCommand (5ms) [Parameters=[], ...]
\*           and a line break) or "bare" (Executed DbCommand ... and a blank)
\*   kind    "select", "insert", "update", "delete" or "other"
\*   form    how the table Users is written: "plain" Users, "bracket"
\*           [Users], "schema" [dbo].[Users], "schemaPlain" dbo.Users
\*   where   "none", "where" (WHERE Id = 5) or "whereOrder" (... ORDER BY Name)
\*   letters "upper" or "lower": the case of the keywords
Statements ==
  {st \in [prefix : {"none", "parameters", "bare"},
           kind : {"select", "insert", "update", "delete", "other"},
           columns : 1..MaxColumns,
           form : {"plain", "bracket", "schema", "schemaPlain"},
           where : {"none", "where", "whereOrder"},
           letters : {"upper", "lower"}] :
     st.kind # "select" => st.columns = 1}

keyword(word, letters) == IF letters = "lower" THEN lowerCase(word) ELSE word

prefixText(prefix) ==
  CASE prefix = "parameters" ->
         <<"Executed DbCommand", " ", "(5ms)", " ", "[", "Parameters=", "[", "]", ",",
           " ", "CommandType='Text'", "]", "\n">>
    [] prefix = "bare" -> <<"Executed DbCommand", " ", "...", " ">>
    [] OTHER -> <<>>

tableText(form) ==
  CASE form = "bracket" -> <<"[", "Users", "]">>
    [] form = "schema" -> <<"[", "dbo", "]", ".", "[", "Users", "]">>
    [] form = "schemaPlain" -> <<"dbo", ".", "Users">>
    [] OTHER -> <<"Users">>

columnName(n) == IF n = 1 THEN "Id" ELSE IF n = 2 THEN "Name" ELSE "Email"

RECURSIVE columnsText(_)
columnsText(n) ==
  IF n = 1 THEN <<columnName(1)>>
  ELSE columnsText(n - 1) \o <<",", " ", columnName(n)>>

conditionText == <<"Id", " ", "=", " ", "5">>

whereText(where, letters) ==
  CASE where = "where" -> <<" ", keyword("WHERE", letters), " ">> \o conditionText
    [] where = "whereOrder" ->
         <<" ", keyword("WHERE", letters), " ">> \o conditionText
           \o <<" ", keyword("ORDER BY", letters), " ", "Name">>
    [] OTHER -> <<>>

statementText(st) ==
  (CASE st.kind = "select" ->
          <<keyword("SELECT", st.letters), " ">> \o columnsText(st.columns)
            \o <<" ", keyword("FROM", st.letters), " ">> \o tableText(st.form)
     [] st.kind = "insert" ->
          <<keyword("INSERT", st.letters), " ", keyword("INTO", st.letters), " ">>
            \o tableText(st.form) \o <<" ", "(Name)", " ", "VALUES", " ", "(@p0)">>
     [] st.kind = "update" ->
          <<keyword("UPDATE", st.letters), " ">> \o tableText(st.form)
            \o <<" ", "SET", " ", "Name", " ", "=", " ", "@p0">>
     [] st.kind = "delete" ->
          <<keyword("DELETE", st.letters), " ", keyword("FROM", st.letters), " ">>
            \o tableText(st.form)
     [] OTHER -> <<"CREATE", " ", "INDEX", " ", "IX", " ", "ON", " ">> \o tableText(st.form))
    \o whereText(st.where, st.letters)

sqlText(st) == prefixText(st.prefix) \o statementText(st)

InitSql ==
  /\ DispatcherAtRest
  /\ drv = DrvIdle
  /\ \E st \in Statements :
       call = [op |-> "formatSql", statement |-> st, sql |-> sqlText(st), done |-> FALSE,
               summary |-> Summary("empty", 0, <<>>, FALSE, <<>>, <<>>)]

FormatSql ==
  /\ call.op = "formatSql"
  /\ ~call.done
  /\ call' = [call EXCEPT !.done = TRUE, !.summary = formatSql(call.sql)]
  /\ UNCHANGED <<env, worker, workerCreations, subjectValue, feeds, inbox, outbox, drv>>

NextSql == FormatSql

SpecSql == InitSql /\ [][NextSql]_vars

\* ----- the WHERE extraction exercised on its own --------------------------------
\* longest command text handed to it (in tokens)
MaxWhere == 4

WhereTokens == {"WHERE", "where", "ORDER BY", "group by", "LIMIT", "Id", " ", "ß"}

WhereTexts == UNION {[1..n -> WhereTokens] : n \in 0..MaxWhere}

InitWhere ==
  /\ DispatcherAtRest
  /\ drv = DrvIdle
  /\ \E sql \in WhereTexts :
       call = [op |-> "whereMatch", sql |-> sql, done |-> FALSE,
               result |-> [found |-> FALSE, text |-> <<>>]]

\* the WHERE extraction of formatSql on the command text
WhereMatch ==
  /\ call.op = "whereMatch"
  /\ ~call.done
  /\ call' = [call EXCEPT !.done = TRUE, !.result = whereMatch(call.sql)]
  /\ UNCHANGED <<env, worker, workerCreations, subjectValue, feeds, inbox, outbox, drv>>

NextWhere == WhereMatch

SpecWhere == InitWhere /\ [][NextWhere]_vars

\* ----- the fields of an entry -------------------------------------------------
\* props.StatusCode || undefined, as a number: null, undefined and an absent
\* property all read as NoStatus
NoStatus == 0

\* the three-digit numbers written in the messages of the model
StatusCodes == {100, 199, 200, 404, 500, 501}

\* the decimal digits of a number, and parseInt(text, 10) of them
decimal(n) ==
  CASE n = 100 -> "100"
    [] n = 199 -> "199"
    [] n = 200 -> "200"
    [] n = 404 -> "404"
    [] n = 500 -> "500"
    [] n = 501 -> "501"

parseInt(text) == CHOOSE n \in StatusCodes : decimal(n) = text

\* /-\s*(\d{3})\s*-/
StatusPattern ==
  <<Literal("-"), <<Atom(FALSE, {" ", "\n"}, 0, Unbounded, FALSE, FALSE)>>,
    <<Atom(FALSE, {decimal(n) : n \in StatusCodes}, 1, 1, FALSE, TRUE)>>,
    <<Atom(FALSE, {" ", "\n"}, 0, Unbounded, FALSE, FALSE)>>, Literal("-")>>

\* parseInt(match[1], 10) of a match, NoStatus without one
codeOf(found) == IF found.ok THEN parseInt(found.cap[1]) ELSE NoStatus

\* code >= 200 && code <= 500 ? code : null
statusInRange(code, top) == IF code >= 200 /\ code <= top THEN code ELSE NoStatus

\* extractHttpStatus(line): the code of the first match when it lies in
\* 200..500, with the bound tested as code < 500
extractHttpStatus_below500(message) ==
  statusInRange(codeOf(match(message, StatusPattern)), 499)

\* extractHttpStatus(line): the code of the first match when it lies in
\* 200..500, null (NoStatus) otherwise
extractHttpStatus(message) ==
  statusInRange(codeOf(match(message, StatusPattern)), 500)

\* /\b(GET|POST|PUT|DELETE|PATCH|OPTIONS|HEAD)\b/
Verbs == {"GET", "POST", "PUT", "DELETE", "PATCH", "OPTIONS", "HEAD"}

\* extractHttpMethod(line): the first verb of the message, "" for null
extractHttpMethod(message) ==
  LET at == {i \in 1..Len(message) : message[i] \in Verbs}
  IN IF at = {} THEN "" ELSE message[CHOOSE i \in at : \A j \in at : i <= j]

\* property values of the records of the model
Undefined == Value("undefined", <<>>, <<Txt("undefined")>>, <<>>)
NullValue == Value("null", <<>>, <<Txt("null")>>, <<Txt("null")>>)
NumberValue(n) == Value("number", <<>>, <<Txt(decimal(n))>>, <<Txt(decimal(n))>>)
StringValue(text) == Value("string", <<>>, <<Txt(text)>>, <<Txt("\"" \o text \o "\"")>>)

\* a structured line with a MessageTemplate and Properties (the pairs
\* [key, value] in the order of Object.keys)
JsonMessage(t, level, ctx, template, props) ==
  [kind |-> "json", ts |-> t, level |-> level, ctx |-> ctx, msg |-> NoMsg,
   template |-> template, props |-> props]

\* a message of a text line as a template: the messages of the model hold
\* no brace
asTemplate(msg) == [i \in 1..Len(msg) |-> Txt(msg[i])]

\* the text of an expanded message, a placeholder left in it as one token
asText(message) ==
  [i \in 1..Len(message) |-> IF message[i].ph THEN "{}" ELSE message[i].name[1]]

\* data.MessageTemplate || data.Message
messageTemplateOf(line) ==
  IF line.kind = "text" THEN asTemplate(line.msg) ELSE line.template

\* data.Properties: of a structured line its Properties, of a text line the
\* StatusCode and Method that parseTextLogLine derives from the message
textProperties(sourceContext, status, method) ==
  <<[key |-> <<"StatusCode">>,
     value |-> IF sourceContext = <<"AspNetCore", ".Routing">>
               THEN (IF status = NoStatus THEN NullValue ELSE NumberValue(status))
               ELSE Undefined],
    [key |-> <<"Method">>,
     value |-> IF method = "" THEN NullValue ELSE StringValue(method)]>>

propertiesOf(line) ==
  IF line.kind = "text"
  THEN textProperties(getSourceContextFromMessage(line.msg),
                      extractHttpStatus(line.msg), extractHttpMethod(line.msg))
  ELSE line.props

\* props[key], Undefined when props has no such key
property(props, key) ==
  LET at == {i \in 1..Len(props) : props[i].key = key}
  IN IF at = {} THEN Undefined ELSE props[CHOOSE i \in at : TRUE].value

\* value || undefined of a number and of a string property
numberOr(value, other) ==
  IF value.kind = "number" THEN parseInt(value.str[1].name[1]) ELSE other
stringOr(value, other) ==
  IF value.kind = "string" THEN asText(value.str) ELSE other

\* props.StatusCode || undefined
statusCodeOf(props) == numberOr(property(props, <<"StatusCode">>), NoStatus)

\* if (type === 'HTTP') httpMethod = props.Method || undefined
httpMethodOf(type, props) ==
  IF type = "HTTP" THEN stringOr(property(props, <<"Method">>), <<"">>)[1] ELSE ""

\* sql = props.CommandText || message
sqlOf(props, message) == stringOr(property(props, <<"CommandText">>), asText(message))

\* what the loop body does with a line: as lineOutcome, and "throw" when
\* formatMessage raises (the outer catch swallows it, no entry is pushed)
outcomeWith(outcome, formatted) ==
  IF outcome = "entry" /\ formatted.threw THEN "throw" ELSE outcome

entryOutcome(line) ==
  outcomeWith(lineOutcome(line), formatMessage(messageTemplateOf(line), propertiesOf(line)))

\* the entry pushed for a line, with its message, status code, method and
\* SQL fields (sql and sqlFormatted are Null when they stay undefined)
\* if (type === 'Database') { sql = ...; if (sql) sqlFormatted = formatSql(sql) }
sqlFields(entry, message, sql) ==
  [timestamp |-> entry.timestamp, formattedDate |-> entry.formattedDate,
   hour |-> entry.hour, type |-> entry.type, level |-> entry.level,
   raw |-> entry.raw, message |-> message,
   statusCode |-> entry.statusCode, httpMethod |-> entry.httpMethod,
   sql |-> IF entry.type = "Database" THEN sql ELSE <<>>,
   sqlFormatted |-> IF entry.type = "Database"
                    THEN formatSql(sql)
                    ELSE Summary("empty", 0, <<>>, FALSE, <<>>, <<>>)]

messageFields(entry, props, message) ==
  sqlFields([timestamp |-> entry.timestamp, formattedDate |-> entry.formattedDate,
             hour |-> entry.hour, type |-> entry.type, level |-> entry.level,
             raw |-> entry.raw,
             statusCode |-> statusCodeOf(props),
             httpMethod |-> httpMethodOf(entry.type, props)],
            message, sqlOf(props, message))

propertyFields(entry, template, props) ==
  messageFields(entry, props, formatMessage(template, props).message)

entryOf(line, rt) ==
  propertyFields(buildEntry(line, rt), messageTemplateOf(line), propertiesOf(line))

\* ----- one line parsed on its own ----------------------------------------------
\* hours the host's local time is ahead of UTC
Zones == {0, 1}

\* the instant 2024-01-01T10:00:00Z in hours of local time
localTime(utcHour, zone) == utcHour + zone

\* boilerplate before the statement of a text line (a line holds no line break)
LinePrefixes ==
  {<<"Executed DbCommand", " ", "...", " ">>,
   <<"Executed DbCommand", " ", "(5ms)", " ", "[", "Parameters=", "[", "]", ",",
     " ", "CommandType='Text'", "]", " ">>}

DbMessages ==
  {prefix \o statementText(st) :
     prefix \in LinePrefixes, st \in {x \in Statements : x.prefix = "none"}}

MessageHeads ==
  {<<"Request starting">>, <<"Request finished">>, <<"Executing endpoint">>,
   <<"Executed DbCommand">>, <<"Application started">>}

MessageTails ==
  {<<>>, <<" ", "GET", " ", "/api">>, <<" ", "-", " ", "2000", " ", "-">>,
   <<" ", "-", " ", "100", " ", "-", " ", "200", " ", "-">>}
    \cup {<<" ", "GET", " ", "/api", " ", "-", " ", decimal(n), " ", "-">> : n \in StatusCodes}
    \cup {<<" ", "-", decimal(n), "-">> : n \in StatusCodes}

HttpMessages == {head \o tail : head \in MessageHeads, tail \in MessageTails}

ExampleTemplate == <<Txt("Failed "), Ph(<<"op">>)>>

EntryTemplates ==
  {<<>>, ExampleTemplate, <<Txt("Failed "), Ph(<<"a", "X", "b">>)>>, <<Txt("Done")>>}

EntryProperties ==
  {<<>>,
   <<[key |-> <<"op">>, value |-> StringValue("save")]>>,
   <<[key |-> <<"0">>, value |-> StringValue("x")],
     [key |-> <<"op">>, value |-> StringValue("save")]>>,
   <<[key |-> <<"a", ".", "b">>, value |-> StringValue("save")]>>,
   <<[key |-> <<"op">>, value |-> Value("string", <<>>, <<DollarAmp>>, <<Txt("\"$&\"")>>)]>>,
   <<[key |-> <<"StatusCode">>, value |-> NumberValue(404)],
     [key |-> <<"op">>, value |-> StringValue("save")]>>}

\* the lines parsed on their own on a host of the given zone
EntryLines(zone) ==
  {TextRecord(1, word, msg) :
     word \in {"ERR", "INF"}, msg \in DbMessages \cup HttpMessages \cup {NoMsg}}
    \cup {JsonMessage(localTime(10, zone), level, ctx, template, props) :
            level \in {"", "Error", "Warning", "Information"},
            ctx \in {NoCtx, <<"MyApp">>, <<"AspNetCore", ".Routing">>},
            template \in EntryTemplates, props \in EntryProperties}
    \cup {GarbageLine, EmptyLine}

InitEntry ==
  /\ DispatcherAtRest
  /\ drv = DrvIdle
  /\ \E zone \in Zones, impl \in {"worker", "service"} :
       \E line \in EntryLines(zone) :
         call = [op |-> "parseLine", zone |-> zone, impl |-> impl, line |-> line,
                 done |-> FALSE, outcome |-> "", entries |-> <<>>]

\* logs.push(...) when the loop body reaches it
pushEntry(c, rt) ==
  [c EXCEPT !.entries = IF c.outcome = "entry" THEN <<entryOf(c.line, rt)>> ELSE <<>>]

\* one iteration of the driver loop on the line
ParseLine ==
  /\ call.op = "parseLine"
  /\ ~call.done
  /\ \E now \in Clock :
       call' = pushEntry([call EXCEPT !.done = TRUE, !.outcome = entryOutcome(call.line)],
                         [impl |-> call.impl, now |-> now])
  /\ UNCHANGED <<env, worker, workerCreations, subjectValue, feeds, inbox, outbox, drv>>

NextEntry == ParseLine

SpecEntry == InitEntry /\ [][NextEntry]_vars

\* ----- LogsListComponent -----------------------------------------------------
\* The component's fields are held in `call`.  The texts of its entries are
\* sequences of characters.

\* longest logs array bound to the component
MaxListLogs == 2
\* most 5 s timers of the update notification pending at once
MaxTimers == 1

\* the page sizes bound to the component
PageSizes == {1, 2}

\* String.prototype.toLowerCase, character by character
lowerChar(c) ==
  CASE c = "O" -> "o"
    [] c = "K" -> "k"
    [] c = "G" -> "g"
    [] c = "E" -> "e"
    [] c = "T" -> "t"
    [] OTHER -> c

toLowerCase(text) == [i \in 1..Len(text) |-> lowerChar(text[i])]

\* statusCode.toString()
numberToString(n) ==
  CASE n = 404 -> <<"4", "0", "4">>
    [] n = 200 -> <<"2", "0", "0">>

\* matchesSearch of applyFilter, the correlation id left out
matchesSearch_noCorrelation(log, searchTerm) ==
  LET searchLower == toLowerCase(trim(searchTerm))
  IN \/ searchLower = <<>>
     \/ includes(toLowerCase(log.message), searchLower)
     \/ includes(toLowerCase(log.formattedDate), searchLower)
     \/ log.statusCode # NoStatus /\ includes(numberToString(log.statusCode), searchLower)
     \/ log.httpMethod # <<>> /\ includes(toLowerCase(log.httpMethod), searchLower)

\* matchesSearch of applyFilter
matchesSearch(log, searchTerm) ==
  LET searchLower == toLowerCase(trim(searchTerm))
  IN \/ searchLower = <<>>
     \/ includes(toLowerCase(log.message), searchLower)
     \/ includes(toLowerCase(log.formattedDate), searchLower)
     \/ log.statusCode # NoStatus /\ includes(numberToString(log.statusCode), searchLower)
     \/ log.httpMethod # <<>> /\ includes(toLowerCase(log.httpMethod), searchLower)
     \/ log.correlationId # <<>> /\ includes(toLowerCase(log.correlationId), searchLower)

\* selected.includes(x), selected.indexOf(x) >= 0
isSelected(selected, x) == \E i \in 1..Len(selected) : selected[i] = x

\* applyFilter(): the component with filteredLogs recomputed
applyFilter(c) ==
  LET keep(log) ==
        /\ matchesSearch(log, c.searchTerm)
        /\ c.selectedLevels = <<>> \/ isSelected(c.selectedLevels, log.level)
        /\ c.selectedTypes = <<>> \/ isSelected(c.selectedTypes, log.type)
  IN [c EXCEPT !.filteredLogs = SelectSeq(c.logs, keep)]

\* Math.ceil(n / d) for d > 0
ceilDiv(n, d) == (n + d - 1) \div d

\* array.slice(start, end)
slice(array, start, end) ==
  IF start >= end \/ start >= Len(array) THEN <<>>
  ELSE SubSeq(array, start + 1, IF end < Len(array) THEN end ELSE Len(array))

\* updatePagination()
updatePagination(c) ==
  LET startIndex == (c.currentPage - 1) * c.pageSize
      endIndex == IF startIndex + c.pageSize < Len(c.filteredLogs)
                  THEN startIndex + c.pageSize
                  ELSE Len(c.filteredLogs)
  IN [c EXCEPT !.totalPages = ceilDiv(Len(c.filteredLogs), c.pageSize),
               !.startIndex = startIndex,
               !.endIndex = endIndex,
               !.paginatedLogs = slice(c.filteredLogs, startIndex, endIndex)]

\* onSearchChange()
onSearchChange(c) == updatePagination(applyFilter([c EXCEPT !.currentPage = 1]))

\* selected.splice(index, 1) when x is selected, selected.push(x) otherwise
toggled(selected, x) ==
  IF isSelected(selected, x)
  THEN LET keep(y) == y # x IN SelectSeq(selected, keep)
  ELSE Append(selected, x)

\* toggleLevel(level) and toggleType(type)
toggleLevel(c, level) ==
  updatePagination(applyFilter([c EXCEPT !.selectedLevels = toggled(@, level)]))
toggleType(c, type) ==
  updatePagination(applyFilter([c EXCEPT !.selectedTypes = toggled(@, type)]))

\* nextPage() and previousPage()
nextPage(c) ==
  IF c.currentPage < c.totalPages
  THEN updatePagination([c EXCEPT !.currentPage = @ + 1])
  ELSE c
previousPage(c) ==
  IF c.currentPage > 1
  THEN updatePagination([c EXCEPT !.currentPage = @ - 1])
  ELSE c

\* ngOnChanges() once the bound inputs were written
ngOnChanges(c) ==
  LET grown == Len(c.logs) > c.previousLogsCount
      marked ==
        IF grown
        THEN [c EXCEPT !.newLogsCount = Len(c.logs) - c.previousLogsCount,
                       !.newLogIndices = @ \cup (c.previousLogsCount..(Len(c.logs) - 1)),
                       !.showUpdateNotification = TRUE,
                       !.hideTimers = @ + 1]
        ELSE [c EXCEPT !.newLogIndices = {}]
  IN onSearchChange([marked EXCEPT !.previousLogsCount = Len(c.logs), !.currentPage = 1])

\* ngOnInit()
ngOnInit(c) == updatePagination([c EXCEPT !.previousLogsCount = Len(c.logs)])

\* the entries bound to the component
ListEntries ==
  {[message |-> <<"O", "k">>, formattedDate |-> <<"1", "0">>, statusCode |-> NoStatus,
    httpMethod |-> <<>>, correlationId |-> <<>>, level |-> "Information", type |-> "Log"],
   [message |-> <<"n", "o">>, formattedDate |-> <<"1", "1">>, statusCode |-> 404,
    httpMethod |-> <<"G", "E", "T">>, correlationId |-> <<"k">>, level |-> "Error",
    type |-> "HTTP"],
   [message |-> <<"n", "o">>, formattedDate |-> <<"1", "1">>, statusCode |-> NoStatus,
    httpMethod |-> <<>>, correlationId |-> <<>>, level |-> "Error", type |-> "Log"]}

ListLogs == UNION {[1..n -> ListEntries] : n \in 0..MaxListLogs}

\* what is typed in the search box
SearchTerms == {<<>>, <<" ">>, <<"O", "K">>, <<"4">>, <<"g", "e">>, <<"k", " ">>}

ListLevels == {"Error", "Information"}
ListTypes == {"HTTP", "Log"}

\* the component as constructed
InitList ==
  /\ DispatcherAtRest
  /\ drv = DrvIdle
  /\ \E pageSize \in PageSizes :
       call = [op |-> "logsList", phase |-> "constructed", last |-> "constructor",
               logs |-> <<>>, pageSize |-> pageSize,
               selectedLevels |-> <<>>, selectedTypes |-> <<>>, searchTerm |-> <<>>,
               filteredLogs |-> <<>>, currentPage |-> 1, totalPages |-> 1,
               paginatedLogs |-> <<>>, startIndex |-> 0, endIndex |-> 0,
               showUpdateNotification |-> FALSE, hideTimers |-> 0, newLogsCount |-> 0,
               previousLogsCount |-> 0, newLogIndices |-> {}]

\* the parent binds a new logs array and change detection runs ngOnChanges
NgOnChanges ==
  /\ call.op = "logsList"
  /\ call.phase \in {"constructed", "ready"}
  /\ \E logs \in ListLogs :
       /\ Len(logs) > call.previousLogsCount => call.hideTimers < MaxTimers
       /\ call' = [ngOnChanges([call EXCEPT !.logs = logs]) EXCEPT
                     !.phase = IF call.phase = "constructed" THEN "changed" ELSE @,
                     !.last = "ngOnChanges"]
  /\ UNCHANGED <<env, worker, workerCreations, subjectValue, feeds, inbox, outbox, drv>>

\* ngOnInit runs once, after the first ngOnChanges
NgOnInit ==
  /\ call.op = "logsList"
  /\ call.phase = "changed"
  /\ call' = [ngOnInit(call) EXCEPT !.phase = "ready", !.last = "ngOnInit"]
  /\ UNCHANGED <<env, worker, workerCreations, subjectValue, feeds, inbox, outbox, drv>>

\* the search box is edited
OnSearchChange ==
  /\ call.op = "logsList"
  /\ call.phase = "ready"
  /\ \E term \in SearchTerms :
       call' = [onSearchChange([call EXCEPT !.searchTerm = term]) EXCEPT
                  !.last = "onSearchChange"]
  /\ UNCHANGED <<env, worker, workerCreations, subjectValue, feeds, inbox, outbox, drv>>

ClearSearch ==
  /\ call.op = "logsList"
  /\ call.phase = "ready"
  /\ call' = [onSearchChange([call EXCEPT !.searchTerm = <<>>]) EXCEPT !.last = "clearSearch"]
  /\ UNCHANGED <<env, worker, workerCreations, subjectValue, feeds, inbox, outbox, drv>>

ToggleLevel ==
  /\ call.op = "logsList"
  /\ call.phase = "ready"
  /\ \E level \in ListLevels :
       call' = [toggleLevel(call, level) EXCEPT !.last = "toggleLevel"]
  /\ UNCHANGED <<env, worker, workerCreations, subjectValue, feeds, inbox, outbox, drv>>

ToggleType ==
  /\ call.op = "logsList"
  /\ call.phase = "ready"
  /\ \E type \in ListTypes :
       call' = [toggleType(call, type) EXCEPT !.last = "toggleType"]
  /\ UNCHANGED <<env, worker, workerCreations, subjectValue, feeds, inbox, outbox, drv>>

NextPage ==
  /\ call.op = "logsList"
  /\ call.phase = "ready"
  /\ call' = [nextPage(call) EXCEPT !.last = "nextPage"]
  /\ UNCHANGED <<env, worker, workerCreations, subjectValue, feeds, inbox, outbox, drv>>

PreviousPage ==
  /\ call.op = "logsList"
  /\ call.phase = "ready"
  /\ call' = [previousPage(call) EXCEPT !.last = "previousPage"]
  /\ UNCHANGED <<env, worker, workerCreations, subjectValue, feeds, inbox, outbox, drv>>

\* a 5 s timer of the update notification fires
HideNotification ==
  /\ call.op = "logsList"
  /\ call.hideTimers > 0
  /\ call' = [call EXCEPT !.hideTimers = @ - 1, !.showUpdateNotification = FALSE]
  /\ UNCHANGED <<env, worker, workerCreations, subjectValue, feeds, inbox, outbox, drv>>

NextList ==
  \/ NgOnChanges
  \/ NgOnInit
  \/ OnSearchChange
  \/ ClearSearch
  \/ ToggleLevel
  \/ ToggleType
  \/ NextPage
  \/ PreviousPage
  \/ HideNotification

SpecList == InitList /\ [][NextList]_vars

\* ----- AppComponent ----------------------------------------------------------
\* The component's fields are held in `call`, next to fileName of the
\* FileUploadComponent whose events it handles; the service it calls is the
\* dispatcher above.

\* stats = { totalEntries: 0, entriesByHour: {} }
EmptyStats == [totalEntries |-> 0, entriesByHour |-> <<>>]

\* Math.max() of no arguments
NegInfinity == -3

\* stats.entriesByHour[hour] > maxCount: false for a missing key and for NaN
exceeds(buckets, hour, maxCount) ==
  /\ hour \in DOMAIN buckets
  /\ buckets[hour] # NaN
  /\ buckets[hour] > maxCount

\* the loop of getPeakHour from hour on
RECURSIVE peakLoop(_, _, _, _)
peakLoop(buckets, hour, maxHour, maxCount) ==
  IF hour >= 24 THEN maxHour
  ELSE IF exceeds(buckets, hour, maxCount)
       THEN peakLoop(buckets, hour + 1, hour, buckets[hour])
       ELSE peakLoop(buckets, hour + 1, maxHour, maxCount)

getPeakHour(stats) == peakLoop(stats.entriesByHour, 0, 0, 0)

\* Math.max(...Object.values(entriesByHour)): NaN as soon as one value is NaN
getPeakEntries(stats) ==
  LET buckets == stats.entriesByHour
      values == {buckets[k] : k \in DOMAIN buckets}
  IN IF values = {} THEN NegInfinity
     ELSE IF NaN \in values THEN NaN
     ELSE CHOOSE v \in values : \A w \in values : w <= v

\* updateStatistics(): the chart is not part of the model
updateStatistics(app) ==
  LET stats == getStatistics(app.logs)
  IN [app EXCEPT !.stats = stats,
                 !.peakHour = getPeakHour(stats),
                 !.peakEntries = getPeakEntries(stats)]

\* Math.round((processed / total) * 100)
percent(processed, total) == (200 * processed + total) \div (2 * total)

\* the next, complete and error callbacks onFileLoaded subscribes with
appNext(app, progress) ==
  updateStatistics(
    [app EXCEPT !.logs = progress.logs,
                !.loadingProgress = IF progress.total > 0
                                    THEN percent(progress.processed, progress.total)
                                    ELSE 0,
                !.last = "next"])
appComplete(app) == updateStatistics([app EXCEPT !.isLoading = FALSE, !.last = "complete"])

\* onFileLoaded up to the call of parseLogFile
onFileLoaded(app, name) ==
  [app EXCEPT !.isLoading = TRUE, !.loadingProgress = 0, !.fileName = name,
              !.last = "onFileLoaded"]

\* removeFile() of the upload component and the onFileRemoved it emits
onFileRemoved(app) ==
  [app EXCEPT !.fileName = "", !.logs = <<>>, !.stats = EmptyStats,
              !.peakHour = 0, !.peakEntries = 0, !.last = "onFileRemoved"]

refreshLogs(app) == [updateStatistics(app) EXCEPT !.last = "refreshLogs"]

\* resetAndAskFile(): the fields are emptied, then removeFile() of the upload
\* component (a child of the component's view) emits onFileRemoved, which
\* empties them once more; the file dialog it opens changes no field
resetAndAskFile(app) ==
  [onFileRemoved([app EXCEPT !.logs = <<>>, !.stats = EmptyStats,
                             !.peakHour = 0, !.peakEntries = 0])
     EXCEPT !.last = "resetAndAskFile"]

\* what the observer of feed f was told between two states of the feeds:
\* the snapshots, then the completion
eventsOf(before, after) ==
  [k \in 1..(Len(after.received) - Len(before.received)) |->
     [kind |-> "next", progress |-> after.received[Len(before.received) + k]]]
  \o (IF after.completions > before.completions THEN <<[kind |-> "complete"]>> ELSE <<>>)

\* the callbacks of parsingProgress$ run in the order of their subscription
RECURSIVE eventsFrom(_, _, _)
eventsFrom(fs, fs2, f) ==
  IF f > MaxFeeds THEN <<>>
  ELSE eventsOf(fs[f], fs2[f]) \o eventsFrom(fs, fs2, f + 1)

RECURSIVE handleAll(_, _)
handleAll(app, events) ==
  IF events = <<>> THEN app
  ELSE handleAll(IF Head(events).kind = "next"
                 THEN appNext(app, Head(events).progress)
                 ELSE appComplete(app),
                 Tail(events))

\* the feeds after parseLogFile(content).subscribe(...) on feed f
subscribed(fs, f, content, inWorker) ==
  IF inWorker
  THEN LET others == subjectNext(fs, ResetProgress)
           fresh == [IdleFeed EXCEPT !.phase = "open", !.mode = "worker",
                                     !.content = content, !.timer = "pending", !.sub = TRUE]
           replay == replayOnSubscribe(ResetProgress)
       IN [others EXCEPT ![f] = IF replay = <<>> THEN fresh ELSE onProgress(fresh, replay[1])]
  ELSE [fs EXCEPT ![f] = [IdleFeed EXCEPT !.phase = "open", !.mode = "fallback",
                                          !.content = content, !.timer = "pending"]]

\* the documents the user loads, by file name
AppFiles == {"one.log", "bad.log", "three.log", "none.log"}
contentOf(name) ==
  CASE name = "one.log" -> <<JsonLine(1)>>
    [] name = "bad.log" -> <<JsonLine(2), JsonLine(InvalidTs)>>
    [] name = "three.log" -> <<JsonLine(2), JsonLine(1), JsonLine(2)>>
    [] OTHER -> <<GarbageLine>>

InitApp ==
  /\ env \in {"ok", "throws", "undefined"}
  /\ worker = initializeWorker(env).worker
  /\ workerCreations = initializeWorker(env).creations
  /\ subjectValue = ResetProgress
  /\ feeds = [f \in FeedIds |-> IdleFeed]
  /\ inbox = <<>>
  /\ outbox = <<>>
  /\ drv = DrvIdle
  /\ call = [op |-> "app", last |-> "constructed", fileName |-> "", logs |-> <<>>,
             stats |-> EmptyStats, peakHour |-> 0, peakEntries |-> 0,
             isLoading |-> FALSE, loadingProgress |-> 0]

\* the reader of the upload component hands over a file: onFileLoaded(content)
OnFileLoaded(name) ==
  /\ \E f \in FeedIds :
       /\ canSubscribe(f)
       /\ feeds' = subscribed(feeds, f, contentOf(name), worker)
  /\ subjectValue' = IF worker THEN ResetProgress ELSE subjectValue
  /\ inbox' = IF worker
              THEN Append(inbox, [type |-> "PARSE_LOG", content |-> contentOf(name),
                                  chunkSize |-> CHUNK_SIZE])
              ELSE inbox
  /\ call' = handleAll(onFileLoaded(call, name), eventsFrom(feeds, feeds', 1))
  /\ UNCHANGED <<env, worker, workerCreations, outbox, drv>>

\* one posted message reaches the main thread and, through the feeds, the component
AppWorkerMessage ==
  /\ outbox # <<>>
  /\ subjectValue' = Head(outbox)
  /\ feeds' = subjectNext(feeds, Head(outbox))
  /\ outbox' = Tail(outbox)
  /\ call' = handleAll(call, eventsFrom(feeds, feeds', 1))
  /\ UNCHANGED <<env, worker, workerCreations, inbox, drv>>

AppTimeout(f) ==
  /\ feeds[f].mode = "worker"
  /\ feeds[f].timer = "pending"
  /\ feeds' = [feeds EXCEPT ![f] = onTimeout(feeds[f])]
  /\ call' = handleAll(call, eventsFrom(feeds, feeds', 1))
  /\ UNCHANGED <<env, worker, workerCreations, subjectValue, inbox, outbox, drv>>

\* timers of equal delay run in the order they were set
AppFallbackTick(f) ==
  /\ feeds[f].mode = "fallback"
  /\ feeds[f].timer = "pending"
  /\ \A g \in FeedIds : g < f => feeds[g].timer # "pending"
  /\ \E now \in Readings(Len(feeds[f].content)) :
       LET pushed == parseLogFileChunked(feeds[f].content, now).pushed
           told == subjectNextAll(feeds, pushed)
           fired == [told[f] EXCEPT !.timer = timerAfterFire]
       IN /\ feeds' = [told EXCEPT ![f] =
                         observerComplete(
                           observerNextAll(fired, fallbackEmissions(feeds[f].content, now)),
                           "complete")]
          /\ subjectValue' = pushed[Len(pushed)]
  /\ call' = handleAll(call, eventsFrom(feeds, feeds', 1))
  /\ UNCHANGED <<env, worker, workerCreations, inbox, outbox, drv>>

\* removeFile() of the upload component, with or without a file shown
OnFileRemoved ==
  /\ call' = onFileRemoved(call)
  /\ UNCHANGED <<env, worker, workerCreations, subjectValue, feeds, inbox, outbox, drv>>

RefreshLogs ==
  /\ call' = refreshLogs(call)
  /\ UNCHANGED <<env, worker, workerCreations, subjectValue, feeds, inbox, outbox, drv>>

ResetAndAskFile ==
  /\ call' = resetAndAskFile(call)
  /\ UNCHANGED <<env, worker, workerCreations, subjectValue, feeds, inbox, outbox, drv>>

NextApp ==
  \/ \E name \in AppFiles : OnFileLoaded(name)
  \/ WorkerRun
  \/ AppWorkerMessage
  \/ \E f \in FeedIds : AppTimeout(f)
  \/ \E f \in FeedIds : AppFallbackTick(f)
  \/ OnFileRemoved
  \/ RefreshLogs
  \/ ResetAndAskFile

SpecApp == InitApp /\ [][NextApp]_vars

\* ----- properties ------------------------------------------------------------
Last(seq) == seq[Len(seq)]

\* number of elements of seq that satisfy nothing but equality with x
Count(seq, x) == Cardinality({i \in 1..Len(seq) : seq[i] = x})

\* C1: every parseLogFile invocation, in background and in fallback mode and
\* under every interleaving of worker messages, safety timer and caller
\* unsubscription, calls observer.complete() at most once, so the feed
\* signals completion at most once.
C1_CompletesAtMostOnce ==
  \A f \in FeedIds : feeds[f].completeCalls <= 1 /\ feeds[f].completions <= 1

\* one feed completed on a terminal snapshot, the other through the timer
C1_Witness ==
  /\ feeds[1].exit = "complete" /\ feeds[1].completions = 1
  /\ feeds[2].exit = "timeout" /\ feeds[2].completions = 1

\* C2: within one invocation the snapshots delivered to the subscriber have
\* non-decreasing processed values, whatever other invocations are started
\* on the same service while the feed is open.
C2_ProcessedNeverDecreases ==
  \A f \in FeedIds : \A i, j \in 1..Len(feeds[f].received) :
    i < j => feeds[f].received[i].processed <= feeds[f].received[j].processed

\* C3 as stated: whenever a feed has completed, the last snapshot it
\* delivered satisfies processed == total.
C3_CompletedOnTerminal ==
  \A f \in FeedIds : feeds[f].completions >= 1 =>
    /\ feeds[f].received # <<>>
    /\ Last(feeds[f].received).processed = Last(feeds[f].received).total

\* C3 amended: a feed that completes other than through the safety timer
\* completes on a snapshot with processed == total, and no feed delivers a
\* snapshot after it has completed.
C3_NonTimeoutCompletesOnTerminal ==
  [][\A f \in FeedIds :
       /\ feeds[f].completions >= 1 => feeds'[f].received = feeds[f].received
       /\ feeds'[f].exit = "complete" =>
            /\ feeds'[f].received # <<>>
            /\ Last(feeds'[f].received).processed = Last(feeds'[f].received).total]_vars

\* a background feed completed on the terminal snapshot of a three-line
\* document after two intermediate snapshots
C3_Witness ==
  \E f \in FeedIds :
    /\ feeds[f].mode = "worker" /\ feeds[f].exit = "complete"
    /\ Len(feeds[f].received) = 4
    /\ Last(feeds[f].received).processed = 3
    /\ Last(feeds[f].received).total = 3

\* C4: in background mode every subscribed feed that the caller does not
\* unsubscribe eventually completes: when no terminal snapshot arrives the
\* safety timer completes it, on the snapshots delivered so far.
C4_BackgroundFeedCompletes ==
  /\ \A f \in FeedIds :
       (feeds[f].phase = "open" /\ feeds[f].mode = "worker")
         ~> (feeds[f].completions = 1 \/ feeds[f].exit = "unsubscribe")
  /\ [][\A f \in FeedIds :
         (feeds[f].exit = "none" /\ feeds'[f].exit = "timeout") =>
           /\ feeds'[f].completions = 1
           /\ feeds'[f].received = feeds[f].received]_vars

\* the timer completed the feed of a document the worker's handler ignores
C4_Witness ==
  \E f \in FeedIds :
    /\ feeds[f].mode = "worker" /\ feeds[f].exit = "timeout"
    /\ isEmptyContent(feeds[f].content)
    /\ feeds[f].completions = 1
    /\ inbox = <<>> /\ outbox = <<>>

\* C5: on every exit path of a feed (completion, unsubscription, timeout), in
\* background and in fallback mode, no timer of the invocation stays pending
\* and no subscription of it to the progress subject stays active.
C5_ReleasedOnExit ==
  \A f \in FeedIds :
    feeds[f].phase = "closed" => feeds[f].timer # "pending" /\ ~feeds[f].sub

\* the entries of logs are exactly the entries of the lines that produce one
completeEntries(logs, lines) ==
  /\ Len(logs) = Cardinality({i \in 1..Len(lines) : lines[i].kind \in {"json", "text"}})
  /\ \A i \in 1..Len(lines) :
       lines[i].kind \in {"json", "text"} =>
         Cardinality({k \in 1..Len(logs) : logs[k].raw = lines[i]}) = Count(lines, lines[i])

\* newest first
sortedDescending(logs) ==
  \A i, j \in 1..Len(logs) :
    i < j => getTime(logs[i].timestamp) >= getTime(logs[j].timestamp)

\* C6: without a worker, parseLogFile delivers nothing at subscription; the
\* deferred callback delivers exactly one snapshot, holding the complete
\* sorted entries with processed == total, followed at once by completion;
\* no intermediate snapshot reaches the subscriber.
C6_FallbackSingleSnapshot ==
  \A f \in FeedIds : feeds[f].mode = "fallback" =>
    /\ feeds[f].timer = "pending" => feeds[f].received = <<>> /\ feeds[f].completions = 0
    /\ feeds[f].exit = "unsubscribe" => feeds[f].received = <<>> /\ feeds[f].completions = 0
    /\ (feeds[f].timer # "pending" /\ feeds[f].exit # "unsubscribe") =>
         /\ feeds[f].exit = "complete" /\ feeds[f].completions = 1
         /\ Len(feeds[f].received) = 1
         /\ feeds[f].received[1].processed = feeds[f].received[1].total
         /\ completeEntries(feeds[f].received[1].logs, feeds[f].content)
         /\ sortedDescending(feeds[f].received[1].logs)

\* a fallback feed completed on a document whose entries had to be reordered
C6_Witness ==
  \E f \in FeedIds :
    /\ feeds[f].mode = "fallback" /\ feeds[f].exit = "complete"
    /\ feeds[f].content = <<JsonLine(1), JsonLine(2), GarbageLine>>
    /\ feeds[f].received =
         <<[processed |-> 2, total |-> 2,
            logs |-> <<[timestamp |-> 2, formattedDate |-> serviceDateString(2),
                        hour |-> 2, type |-> "Log", level |-> "Information",
                        raw |-> JsonLine(2)],
                       [timestamp |-> 1, formattedDate |-> serviceDateString(1),
                        hour |-> 1, type |-> "Log", level |-> "Information",
                        raw |-> JsonLine(1)]>>]>>

\* C7: for a document of exactly one non-blank line matching neither grammar
\* the feed yields zero entries and its terminal snapshot has
\* processed == total == 1, in background and in fallback mode alike.
C7_OneGarbageLine ==
  \A f \in FeedIds :
    (feeds[f].content = <<GarbageLine>> /\ feeds[f].exit = "complete") =>
      /\ Last(feeds[f].received).logs = <<>>
      /\ Last(feeds[f].received).processed = 1
      /\ Last(feeds[f].received).total = 1

\* C8: when creating the worker throws during initialization, the worker
\* reference is null and stays null, every parseLogFile call takes the
\* same-thread fallback, nothing is posted to a worker and no call
\* re-attempts the creation.
C8_FailedWorkerStaysNull ==
  env = "throws" =>
    /\ ~worker
    /\ workerCreations = 1
    /\ inbox = <<>> /\ outbox = <<>>
    /\ \A f \in FeedIds : feeds[f].phase # "idle" => feeds[f].mode = "fallback"

\* after a failed creation two calls were served by the fallback
C8_Witness ==
  /\ env = "throws"
  /\ \A f \in FeedIds : feeds[f].mode = "fallback" /\ feeds[f].exit = "complete"

\* the snapshots a driver run reported before the terminal one
intermediate(snaps) == SubSeq(snaps, 1, Len(snaps) - 1)

\* a report for every line index that is a multiple of the chunk size
reportsEveryChunk(snaps, lines, c) ==
  \A i \in 0..(Len(lines) - 1) :
    i % c = 0 =>
      \E k \in 1..Len(intermediate(snaps)) :
        snaps[k].processed = i /\ snaps[k].total = Len(lines)

\* C9: with chunk size C and a document of N lines the driver emits an
\* intermediate snapshot at every line index i with i mod C == 0, carrying
\* processed = i and total = N, whatever line i contains.
C9_SnapshotEveryChunk ==
  /\ drv.phase = "worker" => reportsEveryChunk(drv.posted, drv.lines, drv.chunkSize)
  /\ drv.phase = "chunked" => reportsEveryChunk(drv.chunked.pushed, drv.lines, CHUNK_SIZE)

\* the terminal snapshot counts every line and holds one entry per record line
countsEveryLine(snaps, lines) ==
  /\ Last(snaps).processed = Len(lines)
  /\ Last(snaps).total = Len(lines)
  /\ completeEntries(Last(snaps).logs, lines)
  /\ Len(Last(snaps).logs)
       <= Cardinality({i \in 1..Len(lines) : lines[i].kind \notin {"empty", "space"}})

\* C10: every line contributes at most one entry; blank lines and lines
\* matching neither grammar contribute none, never abort the parse of later
\* lines and are still counted: the terminal snapshot has
\* processed == total == number of lines, and at most one entry per
\* non-blank line.
C10_SkippedLinesCounted ==
  /\ drv.phase = "worker" => countsEveryLine(drv.posted, drv.lines)
  /\ drv.phase = "chunked" => countsEveryLine(drv.chunked.pushed, drv.lines)

\* a record after a skipped line and a swallowed exception still gets its entry
C10_Witness ==
  /\ drv.phase = "worker"
  /\ drv.lines = <<GarbageLine, JsonNullLine, TextLine(1)>>
  /\ Last(drv.posted) =
       [processed |-> 3, total |-> 3,
        logs |-> <<[timestamp |-> 1, formattedDate |-> workerDateString(1),
                    hour |-> 1, type |-> "Log", level |-> "Information",
                    raw |-> TextLine(1)]>>]

\* the entries of the first n lines, in line order
producedUpTo(lines, n, rt) ==
  LET kept == {i \in 1..n : lineOutcome(lines[i]) = "entry"}
      nth(k) == CHOOSE i \in kept : Cardinality({j \in kept : j <= i}) = k
  IN [k \in 1..Cardinality(kept) |-> buildEntry(lines[nth(k)], atLine(rt, nth(k)))]

isPermutation(a, b) ==
  /\ Len(a) = Len(b)
  /\ \A i \in 1..Len(a) : Count(a, a[i]) = Count(b, a[i])

\* of two neighbours with parseable timestamps the first is not the older one
newestFirstAdjacent(logs) ==
  \A k \in 1..(Len(logs) - 1) :
    (getTime(logs[k].timestamp) # NaN /\ getTime(logs[k + 1].timestamp) # NaN) =>
      getTime(logs[k].timestamp) >= getTime(logs[k + 1].timestamp)

sortedOnceAtEnd(snaps, lines, rt) ==
  /\ isPermutation(Last(snaps).logs, producedUpTo(lines, Len(lines), rt))
  /\ newestFirstAdjacent(Last(snaps).logs)
  /\ \A k \in 1..(Len(snaps) - 1) :
       snaps[k].logs = producedUpTo(lines, snaps[k].processed + 1, rt)

\* C11: the entries of the terminal snapshot are a permutation of the entries
\* produced during the parse, newest first (of every two neighbours with
\* parseable timestamps the first is not the older one); every intermediate
\* snapshot lists its entries in line order.
C11_SortedOnceAtEnd ==
  /\ drv.phase = "worker" =>
       sortedOnceAtEnd(drv.posted, drv.lines, [impl |-> "worker", now |-> drv.now])
  /\ drv.phase = "chunked" =>
       sortedOnceAtEnd(drv.chunked.pushed, drv.lines, [impl |-> "service", now |-> drv.now])

\* two records were moved ahead of an older one behind a record whose
\* timestamp cannot be parsed, after snapshots in line order
C11_Witness ==
  /\ drv.phase = "worker" /\ drv.chunkSize = 1
  /\ drv.lines = <<JsonLine(InvalidTs), JsonLine(1), JsonLine(2)>>
  /\ Len(drv.posted) = 4
  /\ [k \in 1..3 |-> drv.posted[3].logs[k].timestamp] = <<InvalidTs, 1, 2>>
  /\ [k \in 1..3 |-> Last(drv.posted).logs[k].timestamp] = <<InvalidTs, 2, 1>>

\* the entries of the terminal snapshot of the first parse of the driver run
firstTerminalLogs ==
  IF drv.phase = "worker" THEN Last(drv.posted).logs ELSE drv.chunked.logs

\* C12: parsing the same document twice, at different times and in either
\* mode, yields terminal entry sequences equal element by element, for
\* documents with records that carry no timestamp or an unparseable one too.
C12_ParseIdempotent ==
  drv.again.done => drv.again.logs = firstTerminalLogs

\* the labels detectLogType can return
LogTypes ==
  {"Database", "Migration", "ORM", "HTTP", "Security", "Static", "App",
   "Validation", "Error", "Warning", "Log"}

wellFormedEntries(snaps) ==
  \A k \in 1..Len(snaps) : \A e \in 1..Len(snaps[k].logs) :
    /\ snaps[k].logs[e].type \in LogTypes
    /\ snaps[k].logs[e].level # ""
    /\ snaps[k].logs[e].hour \in 0..23

\* C16: every entry of every snapshot, the entries of records with a missing
\* or unparseable timestamp included, has a type of the closed label set, a
\* level and an integer hour in 0..23.
C16_EntriesWellFormed ==
  /\ drv.phase = "worker" => wellFormedEntries(drv.posted)
  /\ drv.phase = "chunked" => wellFormedEntries(drv.chunked.pushed)

\* C13: the date cache never holds more than DATE_CACHE_MAX keys; a stored
\* key is never removed and its value never changes; a lookup of a stored key
\* returns the stored value; a miss on a full cache is computed and returned
\* without being stored.
C13_DateCacheCapped ==
  /\ [](\A impl \in {"worker", "service"} :
          Cardinality(DOMAIN call.caches[impl]) <= DATE_CACHE_MAX)
  /\ [][/\ \A impl \in {"worker", "service"} : \A k \in DOMAIN call.caches[impl] :
             /\ k \in DOMAIN call'.caches[impl]
             /\ call'.caches[impl][k] = call.caches[impl][k]
        /\ LET cache == call.caches[call'.impl]
           IN /\ call'.timestamp \in DOMAIN cache =>
                   call'.result = cache[call'.timestamp]
              /\ (call'.timestamp \notin DOMAIN cache
                    /\ Cardinality(DOMAIN cache) = DATE_CACHE_MAX) =>
                   /\ call'.caches = call.caches
                   /\ call'.result = dateString(call'.impl, call'.timestamp)]_vars

\* a full cache answered a miss without storing it
C13_Witness ==
  /\ call.impl = "worker"
  /\ Cardinality(DOMAIN call.caches.worker) = DATE_CACHE_MAX
  /\ call.timestamp \notin DOMAIN call.caches.worker
  /\ call.result = workerDateString(call.timestamp)

\* C14: formatDate of a timestamp string that cannot be parsed as a date
\* returns that string unchanged, in the worker and in the service, cached or
\* not.
C14_UnparseableReturnedUnchanged ==
  (call.impl # "none" /\ call.timestamp = InvalidTs) =>
    call.result = asString(call.timestamp)

\* the substring tests in the order of the claim: label and needles
TypeTests ==
  <<[label |-> "Database", needles |-> {<<"EntityFrameworkCore", ".Database">>}],
    [label |-> "Migration", needles |-> {<<"EntityFrameworkCore", ".Migrations">>}],
    [label |-> "ORM", needles |-> {<<"EntityFrameworkCore">>}],
    [label |-> "HTTP", needles |-> {<<"AspNetCore", ".Hosting.Diagnostics">>,
                                    <<"AspNetCore", ".Routing">>,
                                    <<"AspNetCore", ".Mvc">>}],
    [label |-> "Security", needles |-> {<<"DataProtection">>}],
    [label |-> "Static", needles |-> {<<"StaticFiles">>}],
    [label |-> "App", needles |-> {<<"Lifetime">>}],
    [label |-> "Validation", needles |-> {<<"Validation">>}]>>

\* the tests a context passes
matching(ctx) ==
  {k \in 1..Len(TypeTests) : \E needle \in TypeTests[k].needles : includes(ctx, needle)}

\* the context the label is chosen on: the one in Properties when there is one
effectiveContext(data) ==
  IF data.Properties.SourceContext # NoCtx
  THEN data.Properties.SourceContext
  ELSE data.SourceContext

\* C15: detectLogType returns exactly one label of the closed set: the label
\* of the first substring test its SourceContext passes (Properties first),
\* in the order Database, Migration, ORM, HTTP, Security, Static, App,
\* Validation; Level decides (Error, Warning) only when no test passes, else
\* Log.
C15_FirstMatchingLabel ==
  call.done =>
    LET hits == matching(effectiveContext(call.data))
    IN /\ call.type \in LogTypes
       /\ hits # {} =>
            call.type = TypeTests[CHOOSE k \in hits : \A j \in hits : k <= j].label
       /\ hits = {} =>
            call.type = CASE call.data.Level = "Error" -> "Error"
                          [] call.data.Level = "Warning" -> "Warning"
                          [] OTHER -> "Log"

\* an Error record of the migrations context, whose Properties context wins
\* over a top-level one, is labelled Migration
C15_Witness ==
  /\ call.done
  /\ call.data = Data(NoTs, "Error", <<"Validation">>,
                      <<"EntityFrameworkCore", ".Migrations">>)
  /\ call.type = "Migration"

\* the sum of the values of the buckets with keys in keys
RECURSIVE sumOver(_, _)
sumOver(buckets, keys) ==
  IF keys = {} THEN 0
  ELSE LET k == CHOOSE x \in keys : TRUE
       IN buckets[k] + sumOver(buckets, keys \ {k})

\* C17: getStatistics returns totalEntries equal to the number of input
\* entries and a histogram with exactly the 24 keys 0..23, bucket h counting
\* the entries whose hour is h, the buckets summing to totalEntries.
C17_HistogramCounts ==
  call.done =>
    /\ call.stats.totalEntries = Len(call.logs)
    /\ DOMAIN call.stats.entriesByHour = 0..23
    /\ \A h \in 0..23 :
         call.stats.entriesByHour[h] =
           Cardinality({i \in 1..Len(call.logs) : call.logs[i].hour = h})
    /\ sumOver(call.stats.entriesByHour, 0..23) = call.stats.totalEntries

\* the text the claim puts in place of a placeholder
claimedText(value) ==
  IF value.kind = "object" /\ value.Name # <<>> THEN value.Name
  ELSE IF value.str # <<Txt("[object Object]")>> THEN value.str
  ELSE value.json

\* the template with every {key} of the map replaced, the rest untouched
RECURSIVE claimedMessage(_, _)
claimedMessage(template, properties) ==
  IF template = <<>> THEN <<>>
  ELSE LET token == Head(template)
           hits == {i \in 1..Len(properties) :
                      token.ph /\ properties[i].key = token.name}
       IN (IF hits = {} THEN <<token>>
           ELSE claimedText(properties[CHOOSE i \in hits : TRUE].value))
            \o claimedMessage(Tail(template), properties)

\* C18: for any template and property map formatMessage replaces every
\* {key} of the map by the value's Name, else its non-default string
\* conversion, else its JSON serialization; other placeholders stay
\* untouched; a missing template yields N/A.
C18_PlaceholdersReplaced ==
  call.done =>
    /\ ~call.result.threw
    /\ call.result.message =
         IF call.template = <<>> THEN <<Txt("N/A")>>
         ELSE claimedMessage(call.template, call.properties)

\* the cut a text of no signature is summarised by
firstTokens(text) ==
  SubSeq(text, 1, IF Len(text) < SummaryLength THEN Len(text) ELSE SummaryLength)
    \o <<"...">>

\* C19: formatSql classifies a statement by the first of the signatures
\* SELECT, INSERT, UPDATE, DELETE it carries; the summaries of INSERT,
\* UPDATE and DELETE name the target table; only UPDATE and DELETE, never
\* INSERT, append the WHERE marker; a text of no signature is summarised by
\* its first SummaryLength tokens and an ellipsis.
C19_StatementKinds ==
  (call.done /\ call.statement.prefix # "bare") =>
    /\ call.statement.kind \in {"select", "insert", "update", "delete"} =>
         call.summary.kind = call.statement.kind
    /\ call.statement.kind \in {"insert", "update", "delete"} =>
         call.summary.table = <<"Users">>
    /\ call.statement.kind \in {"update", "delete"} =>
         /\ call.summary.hasWhere = (call.statement.where # "none")
         /\ call.summary.hasWhere => call.summary.where = conditionText
    /\ call.statement.kind = "insert" => ~call.summary.hasWhere
    /\ (call.statement.kind = "other" /\ call.statement.prefix = "none") =>
         /\ call.summary.kind = "text"
         /\ call.summary.text = firstTokens(statementText(call.statement))

\* C20: for a SELECT, formatSql reports the number of comma-separated
\* columns between SELECT and FROM and the table of the FROM clause, written
\* with a schema or without one alike, and appends the WHERE clause when
\* there is one.
C20_SelectSummary ==
  (call.done /\ call.statement.prefix # "bare" /\ call.statement.kind = "select") =>
    /\ call.summary.kind = "select"
    /\ call.summary.columns = call.statement.columns
    /\ call.summary.table = <<"Users">>
    /\ call.summary.hasWhere = (call.statement.where # "none")
    /\ call.summary.hasWhere => call.summary.where = conditionText

\* text ends with tail
isSuffix(tail, text) ==
  /\ Len(tail) <= Len(text)
  /\ SubSeq(text, Len(text) - Len(tail) + 1, Len(text)) = tail

\* SELECT Id, Name FROM [dbo].[Users] WHERE Id = 5
ExampleStatement ==
  [prefix |-> "none", kind |-> "select", columns |-> 2, form |-> "schema",
   where |-> "where", letters |-> "upper"]

\* C21: a text line of level ERR whose message starts with Executed
\* DbCommand and holds SELECT Id, Name FROM [dbo].[Users] WHERE Id = 5 yields
\* one entry of type Database whose summary names a 2-column SELECT, the
\* table Users and the WHERE clause Id = 5; the prefix strip removes the
\* prefix only, never a part of the statement.
C21_DatabaseLineSummary ==
  (call.op = "parseLine" /\ call.done /\ call.line.kind = "text"
     /\ call.line.msg \in DbMessages) =>
    /\ Len(call.entries) = 1
    /\ call.entries[1].type = "Database"
    /\ \A prefix \in LinePrefixes :
         (call.line.level = "ERR"
            /\ call.line.msg = prefix \o statementText(ExampleStatement)) =>
           call.entries[1].sqlFormatted =
             Summary("select", 2, <<"Users">>, TRUE, conditionText, <<>>)
    /\ \A prefix \in LinePrefixes, st \in Statements :
         call.line.msg = prefix \o statementText(st) =>
           isSuffix(statementText(st), stripPrefix(call.entries[1].sql))

\* { "Timestamp": "2024-01-01T10:00:00Z", "Level": "Error",
\*   "MessageTemplate": "Failed {op}", "Properties": { "op": "save" } }
ExampleLine(zone) ==
  JsonMessage(localTime(10, zone), "Error", NoCtx, ExampleTemplate,
              <<[key |-> <<"op">>, value |-> StringValue("save")]>>)

\* C22: the structured line of Example 1 yields exactly one entry of type
\* Error, level Error, message Failed save and hour 10; a structured record
\* whose context passes no test takes its type from Level and its message
\* from the template expanded with Properties.
C22_StructuredExample ==
  (call.op = "parseLine" /\ call.done /\ call.line.kind = "json"
     /\ matching(call.line.ctx) = {}) =>
    /\ Len(call.entries) = 1
    /\ call.entries[1].type =
         (IF call.line.level \in {"Error", "Warning"} THEN call.line.level ELSE "Log")
    /\ call.entries[1].message =
         (IF call.line.template = <<>> THEN <<Txt("N/A")>>
          ELSE claimedMessage(call.line.template, call.line.props))
    /\ call.line = ExampleLine(call.zone) =>
         /\ call.entries[1].level = "Error"
         /\ call.entries[1].message = <<Txt("Failed "), Txt("save")>>
         /\ call.entries[1].hour = 10

\* the codes written as - NNN - in a message, blanks optional
dashedCodes(msg) ==
  {n \in StatusCodes :
     \/ includes(msg, <<"-", " ", decimal(n), " ", "-">>)
     \/ includes(msg, <<"-", decimal(n), "-">>)}

\* C24: the entry of a text line has a statusCode only when the inferred
\* context is the routing context and the message holds - NNN - with
\* 200 <= NNN <= 500, and it then equals NNN; every other text line has none.
C24_StatusOnlyForRouting ==
  (call.op = "parseLine" /\ call.done /\ call.line.kind = "text") =>
    /\ Len(call.entries) = 1
    /\ LET codes == {n \in dashedCodes(call.line.msg) : 200 <= n /\ n <= 500}
       IN IF getSourceContextFromMessage(call.line.msg) = <<"AspNetCore", ".Routing">>
             /\ codes # {}
          THEN call.entries[1].statusCode \in codes
          ELSE call.entries[1].statusCode = NoStatus

\* C24 as the code has it: the code is the one of the first - NNN - of the
\* message, and there is none when that first one lies outside 200..500
C24_FirstStatusOnlyForRouting ==
  (call.op = "parseLine" /\ call.done /\ call.line.kind = "text") =>
    /\ Len(call.entries) = 1
    /\ LET found == match(call.line.msg, StatusPattern)
       IN IF getSourceContextFromMessage(call.line.msg) = <<"AspNetCore", ".Routing">>
             /\ found.ok /\ 200 <= parseInt(found.cap[1]) /\ parseInt(found.cap[1]) <= 500
          THEN call.entries[1].statusCode = parseInt(found.cap[1])
          ELSE call.entries[1].statusCode = NoStatus

\* a routing line whose message holds - 404 - was parsed
C24_Witness ==
  /\ call.op = "parseLine" /\ call.done /\ call.line.kind = "text"
  /\ startsWith(call.line.msg, <<"Request finished">>)
  /\ includes(call.line.msg, <<"-", " ", "404", " ", "-">>)
  /\ call.entries[1].statusCode = 404

\* a is b with some elements left out, the order kept
RECURSIVE isSubsequence(_, _)
isSubsequence(a, b) ==
  IF a = <<>> THEN TRUE
  ELSE IF b = <<>> THEN FALSE
  ELSE IF Head(a) = Head(b) THEN isSubsequence(Tail(a), Tail(b))
  ELSE isSubsequence(a, Tail(b))

\* the texts of an entry the search looks into
fieldTexts(log) ==
  {toLowerCase(log.message), toLowerCase(log.formattedDate),
   toLowerCase(log.httpMethod), toLowerCase(log.correlationId)}
    \cup (IF log.statusCode = NoStatus THEN {} ELSE {numberToString(log.statusCode)})

\* the entries of c.logs the claim keeps, in the order of c.logs
claimedFiltered(c) ==
  LET term == toLowerCase(trim(c.searchTerm))
      kept(log) ==
        /\ term = <<>> \/ \E text \in fieldTexts(log) : includes(text, term)
        /\ c.selectedLevels # <<>> =>
             \E i \in 1..Len(c.selectedLevels) : c.selectedLevels[i] = log.level
        /\ c.selectedTypes # <<>> =>
             \E i \in 1..Len(c.selectedTypes) : c.selectedTypes[i] = log.type
      at == {i \in 1..Len(c.logs) : kept(c.logs[i])}
      nth(k) == CHOOSE i \in at : Cardinality({j \in at : j < i}) = k - 1
  IN [k \in 1..Cardinality(at) |-> c.logs[nth(k)]]

\* after onSearchChange, clearSearch, toggleLevel or toggleType filteredLogs
\* holds the entries the filters keep
filteredAsClaimed ==
  (call.op = "logsList"
     /\ call.last \in {"onSearchChange", "clearSearch", "toggleLevel", "toggleType"}) =>
    call.filteredLogs = claimedFiltered(call)

\* the step selects one more level or one more type
selectsOneMore ==
  /\ call.op = "logsList" /\ call'.op = "logsList"
  /\ \/ call'.last = "toggleLevel" /\ Len(call'.selectedLevels) > Len(call.selectedLevels)
     \/ call'.last = "toggleType" /\ Len(call'.selectedTypes) > Len(call.selectedTypes)

\* the step selects a level or a type when none of that kind was selected
selectsFirst ==
  /\ selectsOneMore
  /\ \/ call'.last = "toggleLevel" /\ call.selectedLevels = <<>>
     \/ call'.last = "toggleType" /\ call.selectedTypes = <<>>

\* C23: after onSearchChange, toggleLevel or toggleType filteredLogs is
\* exactly the subsequence of logs whose entries match the search term in
\* message, formattedDate, statusCode, httpMethod or correlationId, whose
\* level is among selectedLevels when that is non-empty and whose type is
\* among selectedTypes when that is non-empty; selecting more filters never
\* adds entries.
C23_FiltersNeverAdd ==
  /\ []filteredAsClaimed
  /\ [][selectsOneMore => isSubsequence(call'.filteredLogs, call.filteredLogs)]_vars

\* C23 as the code has it: the first level (type) selected never adds
\* entries, a further level (type) never removes any.
C23_FilteredExactly ==
  /\ []filteredAsClaimed
  /\ [][/\ selectsFirst => isSubsequence(call'.filteredLogs, call.filteredLogs)
        /\ (selectsOneMore /\ ~selectsFirst) =>
             isSubsequence(call.filteredLogs, call'.filteredLogs)]_vars

\* a level was selected under a search term and the filters kept one entry
\* of two
C23_Witness ==
  /\ call.op = "logsList" /\ call.last = "toggleLevel"
  /\ call.selectedLevels = <<"Error">>
  /\ call.searchTerm = <<"k", " ">>
  /\ Len(call.logs) = 2 /\ Len(call.filteredLogs) = 1

\* C29: after any sequence of input changes, onSearchChange, clearSearch,
\* toggleLevel, toggleType, nextPage and previousPage:
\* 1 <= currentPage <= max(1, totalPages), totalPages is
\* ceil(|filteredLogs| / pageSize), and paginatedLogs is the window
\* filteredLogs[(currentPage-1)*pageSize .. min(currentPage*pageSize,
\* |filteredLogs|)), non-empty whenever filteredLogs is non-empty.
C29_PageWithinRange ==
  (call.op = "logsList" /\ call.phase # "constructed") =>
    LET n == Len(call.filteredLogs)
        first == (call.currentPage - 1) * call.pageSize
        last == IF call.currentPage * call.pageSize < n
                THEN call.currentPage * call.pageSize ELSE n
    IN /\ 1 <= call.currentPage
       /\ call.currentPage <= (IF call.totalPages > 1 THEN call.totalPages ELSE 1)
       /\ call.totalPages * call.pageSize >= n
       /\ call.totalPages = 0 \/ (call.totalPages - 1) * call.pageSize < n
       /\ Len(call.paginatedLogs) = (IF last > first THEN last - first ELSE 0)
       /\ \A k \in 1..Len(call.paginatedLogs) :
            call.paginatedLogs[k] = call.filteredLogs[first + k]
       /\ n > 0 => call.paginatedLogs # <<>>

\* the positions of the tokens of a text that spell one of the words, in
\* either case
positionsOf(text, words) ==
  {i \in 1..Len(text) : \E word \in words : text[i] \in {word, lowerCase(word)}}

\* C25: when the command text contains WHERE (in either case) the extracted
\* clause is the text from just after the first WHERE up to the earliest of
\* the end and the first ORDER BY, GROUP BY or LIMIT after that WHERE; such
\* keywords before the WHERE do not cut the clause.
C25_WhereClause ==
  (call.op = "whereMatch" /\ call.done) =>
    LET wheres == positionsOf(call.sql, {"WHERE"})
        first == CHOOSE i \in wheres : \A j \in wheres : i <= j
        cuts == {i \in positionsOf(call.sql, {"ORDER BY", "GROUP BY", "LIMIT"}) : i > first}
                  \cup {Len(call.sql) + 1}
        cut == CHOOSE i \in cuts : \A j \in cuts : i <= j
    IN /\ call.result.found = (wheres # {})
       /\ wheres # {} => call.result.text = trim(SubSeq(call.sql, first + 1, cut - 1))

\* C26: in every snapshot a feed delivers the number of entries is at most
\* processed and processed is at most total, the intermediate snapshot of
\* line index 0 and the snapshot of the fallback mode included.
C26_EntriesWithinProcessed ==
  \A f \in FeedIds : \A k \in 1..Len(feeds[f].received) :
    /\ Len(feeds[f].received[k].logs) <= feeds[f].received[k].processed
    /\ feeds[f].received[k].processed <= feeds[f].received[k].total

\* the snapshots that belong to the document of feed f: the reset snapshot
\* its own call pushes, met first, and what parsing its content yields
range(seq) == {seq[i] : i \in 1..Len(seq)}
snapshotsOf(content) ==
  UNION {range(workerOnMessage([type |-> "PARSE_LOG", content |-> content,
                                chunkSize |-> CHUNK_SIZE], now)) \cup
         range(fallbackEmissions(content, now)) : now \in Readings(Len(content))}
isOwnSnapshot(f, k) ==
  \/ k = 1 /\ f.mode = "worker" /\ f.received[k] = ResetProgress
  \/ f.received[k] \in snapshotsOf(f.content)

\* C27: a feed delivers only snapshots of its own document: with earlier
\* messages of the shared worker still in flight, a later feed never delivers
\* a snapshot of the earlier document, and an earlier feed never receives the
\* reset snapshot of a later call.
C27_OwnDocumentOnly ==
  \A f \in FeedIds : \A k \in 1..Len(feeds[f].received) : isOwnSnapshot(feeds[f], k)

\* the feed of the most recent onFileLoaded, and what parsing its document ends with
latestFeed == CHOOSE f \in FeedIds : feeds[f].phase # "idle" /\ \A g \in FeedIds : g > f => feeds[g].phase = "idle"
finalEntriesOf(f) ==
  {LET messages == IF f.mode = "worker"
                   THEN workerOnMessage([type |-> "PARSE_LOG", content |-> f.content,
                                         chunkSize |-> CHUNK_SIZE], now)
                   ELSE fallbackEmissions(f.content, now)
   IN IF messages = <<>> THEN <<>> ELSE messages[Len(messages)].logs :
     now \in Readings(Len(f.content))}

\* C28: in AppComponent a snapshot of a superseded or abandoned parse never
\* changes logs: after onFileRemoved logs stays empty until the next
\* onFileLoaded, and once isLoading is false after a load, the parse of the
\* most recently loaded document has ended and logs holds its final entries.
\* Stated for the runs in which no safety timer has forced a completion.
C28_StaleSnapshotsIgnored ==
  (call.last # "constructed" /\ \A f \in FeedIds : feeds[f].exit # "timeout") =>
    /\ call.fileName = "" => call.logs = <<>>
    /\ (call.fileName # "" /\ ~call.isLoading) =>
         /\ feeds[latestFeed].phase = "closed"
         /\ call.logs \in finalEntriesOf(feeds[latestFeed])

\* C30: after every updateStatistics peakEntries equals
\* stats.entriesByHour[peakHour] and the largest bucket, peakHour is the
\* smallest hour in 0..23 with that bucket, and both are finite integers.
C30_PeakOfHistogram ==
  call.last \in {"next", "complete", "refreshLogs"} =>
    /\ call.peakHour \in 0..23
    /\ call.peakEntries \in Nat
    /\ call.peakEntries = call.stats.entriesByHour[call.peakHour]
    /\ \A h \in 0..23 : call.stats.entriesByHour[h] <= call.peakEntries
    /\ \A h \in 0..23 : call.stats.entriesByHour[h] = call.peakEntries => call.peakHour <= h
====
